---------------------------- MODULE Spec2Model ----------------------------
(***************************************************************************)
(* Model of gqcnn/image_grasp_sampler.py: the force-closure test, the      *)
(* image grasp sampler facade (ImageGraspSampler.sample) and its three     *)
(* strategies (antipodal_depth, suction, multi_suction).                   *)
(*                                                                         *)
(* Numbers.  Pixel coordinates and depths are integers.  A unit vector is  *)
(* carried by an integer direction vector d and stands for d/|d|; a dot    *)
(* product c of two unit vectors is kept as the rational sign(c) * c^2, so *)
(* every comparison of a cosine with the cosine of a configured angle is   *)
(* an exact comparison of integers.  Angles are kept as their cosines:     *)
(* arccos is decreasing, so arccos(c) < a is c > cos a.                    *)
(*                                                                         *)
(* Randomness.  The process-wide numpy generator is the variable rng, a    *)
(* state of a small full-period congruential generator; every draw reads   *)
(* the state and advances it, np.random.seed overwrites it.                *)
(***************************************************************************)
EXTENDS Integers, Sequences, FiniteSets, TLC

VARIABLES
    sampler,   \* the sampler object: its type and the fields __init__ set
    rng,       \* state of the process-wide np.random generator
    frame,     \* per thread: arguments and locals of the sample() call in progress
    memo,      \* per seed: the list the last finished call with that seed returned
    fixed_in,  \* the arguments two compared calls have in common
    fc_in,     \* arguments of a force_closure call
    fc_out,    \* its result, and the result with the two contacts swapped
    built,     \* a call of the factory: its arguments and what came of it
    trainer    \* a run of GQCNNTrainerTF.train, or one example's angle being binned

vars == <<sampler, rng, frame, memo, fixed_in, fc_in, fc_out, built, trainer>>

None == "None"

------------------------------------------------------------------------------
(* Bounds of the model *)

\* number of states of the generator
RngMod == 8
\* seeds passed to sample() are 0..MaxSeed
MaxSeed == 1
\* num_samples ranges over 0..MaxNumSamples
MaxNumSamples == 2
\* contact coordinates of the force_closure inputs range over 0..MaxCoord
MaxCoord == 1

------------------------------------------------------------------------------
(* Vectors *)

Dot2(a, b) == a[1] * b[1] + a[2] * b[2]
Sub2(a, b) == <<a[1] - b[1], a[2] - b[2]>>
Add2(a, b) == <<a[1] + b[1], a[2] + b[2]>>
Neg2(a) == <<-a[1], -a[2]>>
NormSq2(a) == Dot2(a, a)
Dot3(a, b) == a[1] * b[1] + a[2] * b[2] + a[3] * b[3]
Neg3(a) == <<-a[1], -a[2], -a[3]>>
NormSq3(a) == Dot3(a, a)
Sign(x) == IF x > 0 THEN 1 ELSE IF x < 0 THEN -1 ELSE 0
Min2(x, y) == IF x < y THEN x ELSE y

\* A cosine c is kept as the rational n/d = sign(c) * c^2 (d > 0), which
\* orders cosines as the cosines themselves are ordered; d = 0 is NaN.

\* the dot product of the unit vectors a/|a| and b/|b|; a zero-length vector
\* divided by its norm is NaN
UnitDot(a, b) ==
    [n |-> Sign(Dot2(a, b)) * Dot2(a, b) * Dot2(a, b),
     d |-> NormSq2(a) * NormSq2(b)]

\* max(min(c, 1.0), -1.0)
Clamp(c) ==
    IF c.d # 0 /\ (c.n > c.d \/ -c.n > c.d)
    THEN [n |-> Sign(c.n), d |-> 1]
    ELSE c

\* cos(arctan(mu)) for mu = m/q >= 0: q/sqrt(q^2 + m^2)
CosArctan(mu) == [n |-> mu.q * mu.q, d |-> mu.q * mu.q + mu.m * mu.m]

\* x > y for two cosines; a comparison with NaN is false
CosGreater(x, y) == x.d # 0 /\ y.d # 0 /\ x.n * y.d > y.n * x.d

\* np.arccos(c) < alpha for the angle alpha with cosine cos_alpha
ArccosLess(c, cos_alpha) == CosGreater(c, cos_alpha)

------------------------------------------------------------------------------
(* force_closure *)

\* the second contact's cone membership is dropped
force_closure_first_cone_only(p1, p2, n1, n2, mu) ==
    LET v == Sub2(p2, p1)
    IN  ArccosLess(Clamp(UnitDot(n1, Neg2(v))), CosArctan(mu))

\* (the cone tests with <= for <)
force_closure_inclusive(p1, p2, n1, n2, mu) ==
    LET v      == Sub2(p2, p1)
        alpha  == CosArctan(mu)
        dot_1  == Clamp(UnitDot(n1, Neg2(v)))
        dot_2  == Clamp(UnitDot(n2, v))
    IN  /\ dot_1.d # 0 /\ dot_2.d # 0
        /\ ~CosGreater(alpha, dot_1) /\ ~CosGreater(alpha, dot_2)

force_closure(p1, p2, n1, n2, mu) ==
    LET v      == Sub2(p2, p1)
        alpha  == CosArctan(mu)
        dot_1  == Clamp(UnitDot(n1, Neg2(v)))
        dot_2  == Clamp(UnitDot(n2, v))
        in_cone_1 == ArccosLess(dot_1, alpha)
        in_cone_2 == ArccosLess(dot_2, alpha)
    IN  in_cone_1 /\ in_cone_2

------------------------------------------------------------------------------
(* The process-wide random generator *)

\* one step of the generator
RngNext(s) == (5 * s + 3) % RngMod

\* np.random.seed(seed): the state is a function of the seed alone
SeedState(seed) == seed % RngMod

\* floor(np.random.rand() * n) for the draw made in state s
DrawIndex(s, n) == (s * n) \div RngMod

RemoveAt(seq, i) == SubSeq(seq, 1, i - 1) \o SubSeq(seq, i + 1, Len(seq))

\* np.random.choice(pool, size=size, replace=False): size draws, each taking
\* one of the elements not taken yet
RECURSIVE choice(_, _, _)
choice(pool, size, s) ==
    IF size = 0 THEN [out |-> <<>>, rng |-> s]
    ELSE LET i    == DrawIndex(s, Len(pool)) + 1
             rest == choice(RemoveAt(pool, i), size - 1, RngNext(s))
         IN  [out |-> <<pool[i]>> \o rest.out, rng |-> rest.rng]

------------------------------------------------------------------------------
(* Sampler objects: ImageGraspSamplerFactory.sampler and the __init__ methods *)

Threads == {1, 2}

\* cosines of the angles max_suction_dir_optical_axis_angle takes: 45, 90 and
\* 135 degrees
Cos45 == [n |-> 1, d |-> 2]
Cos90 == [n |-> 0, d |-> 1]
Cos135 == [n |-> -1, d |-> 2]

SuctionConfigs(sampler_type) ==
    { c \in
        [type : {sampler_type},
         max_suction_dir_optical_axis_angle : {Cos45, Cos90, Cos135},
         min_dist_from_boundary : {0, 1},
         max_num_samples : {1, 3},
         mean_depth : {0}] :
        c.max_suction_dir_optical_axis_angle = Cos135
            => c.min_dist_from_boundary = 0 /\ c.max_num_samples = 3 }

------------------------------------------------------------------------------
(* Images handed to the suction samplers.  A depth image is its size and   *)
(* its nonzero pixels in row-major order, each with the depth z and the    *)
(* surface normal that camera_intr.deproject_to_image and normal_cloud_im  *)
(* give at that pixel; every other pixel has depth 0.                      *)

Pt(row, col, z, normal) == [px |-> <<row, col>>, z |-> z, normal |-> normal]

SuctionImages ==
    { [height |-> 3, width |-> 4, points |-> pts] : pts \in
        { <<>>,
          << Pt(1, 1, 5, <<0, 0, -1>>) >>,
          << Pt(0, 1, 5, <<0, 0, -1>>), Pt(1, 1, 5, <<0, 0, -1>>),
             Pt(1, 2, 5, <<0, -1, -1>>) >>,
          << Pt(1, 2, 5, <<0, -1, -1>>), Pt(1, 3, 6, <<0, -1, -2>>),
             Pt(2, 0, 5, <<0, 0, -1>>) >>,
          << Pt(1, 1, 5, <<0, 0, 0>>), Pt(1, 3, 6, <<-1, 0, -2>>),
             Pt(2, 2, 4, <<0, 0, -1>>) >> } }

\* segmentation masks: no mask (segmask=None), or the pixels where it is nonzero
NoMask == [present |-> FALSE, px |-> {}]
Mask(px) == [present |-> TRUE, px |-> px]
Segmasks == { NoMask, Mask({<<1, 0>>, <<1, 2>>, <<1, 3>>, <<2, 3>>}), Mask({<<0, 1>>}) }

InMask(segmask, px) == ~segmask.present \/ px \in segmask.px

SelectPts(pts, segmask) == SelectSeq(pts, LAMBDA pt : InMask(segmask, pt.px))

\* depth_im.mask_binary(segmask): pixels outside the mask become 0
mask_binary(im, segmask) == [im EXCEPT !.points = SelectPts(im.points, segmask)]

\* depth_im_mask.nonzero_pixels(), each pixel with its point and normal
nonzero_pixels(im) == im.points

------------------------------------------------------------------------------
(* Constraint functions passed to sample(): none, or a predicate of the    *)
(* candidate.                                                              *)

ConstraintFns == { None, "x_even" }

\* constraint_fn(candidate)
ApplyConstraint(constraint_fn, candidate) ==
    constraint_fn = "x_even" /\ candidate.center[1] % 2 = 0

------------------------------------------------------------------------------
(* The frame of a sample() call: arguments, locals, and what the call has  *)
(* done so far.                                                            *)

NoImage == [height |-> 0, width |-> 0, points |-> <<>>]

\* the seed argument: <<>> is seed=None, <<n>> is seed=n
NoSeed == <<>>
Seeds == { <<n>> : n \in 0..MaxSeed }

\* the classes sample() takes its image from, and two it does not
ImageTypes == {"RgbdImage", "GdImage", "DepthImage"}
OtherTypes == {"ColorImage", "BinaryImage"}

\* the image argument as passed: its class and its channels, the depth
\* channel last; a call that is handed the depth image itself keeps this
NoInput == [kind |-> "DepthImage", channels |-> <<NoImage>>]

IdleFrame ==
    [pc |-> "idle", image |-> NoInput, im |-> NoImage, segmask |-> NoMask, num_samples |-> 0,
     seed |-> NoSeed, constraint_fn |-> None,
     edge_pixels |-> <<>>, valid_indices |-> <<>>, antipodal_indices |-> <<>>,
     nonzero_px |-> <<>>, indices |-> <<>>, sample_size |-> 0, k |-> 0,
     grasps |-> <<>>, survivors |-> <<>>, constraint_calls |-> <<>>,
     draws |-> 0, disturbed |-> FALSE, result |-> <<>>, full_res_runs |-> 0]

Range(seq) == { seq[i] : i \in 1..Len(seq) }
Iota(n) == [i \in 1..n |-> i]

\* a Gaussian draw made in generator state s, as one of -1, 0, 1
NormalDraw(s) == (s % 3) - 1

\* a 2-D Gaussian draw made in generator state s
NormalDraw2(s) == <<(s % 3) - 1, ((s \div 3) % 3) - 1>>

------------------------------------------------------------------------------
(* DepthImageSuctionPointSampler._sample_suction_points *)

\* the angle test with <= for <
psi_within_max_inclusive(axis, cos_max) ==
    LET dot == IF NormSq3(axis) = 0 THEN [n |-> 0, d |-> 1]
               ELSE [n |-> Sign(axis[3]) * axis[3] * axis[3], d |-> NormSq3(axis)]
    IN  ~CosGreater(cos_max, Clamp(dot))

\* dot = max(min(axis.dot([0,0,1]), 1.0), -1.0); psi = arccos(dot); psi < max
psi_within_max(axis, cos_max) ==
    LET dot == IF NormSq3(axis) = 0 THEN [n |-> 0, d |-> 1]
               ELSE [n |-> Sign(axis[3]) * axis[3] * axis[3], d |-> NormSq3(axis)]
    IN  ArccosLess(Clamp(dot), cos_max)

\* the boundary test of the suction samplers on center_px = (x, y)
suction_outside_boundary(self, center_px, depth_im) ==
    \/ center_px[1] < self.min_dist_from_boundary
    \/ center_px[2] < self.min_dist_from_boundary
    \/ center_px[2] > depth_im.height - self.min_dist_from_boundary
    \/ center_px[1] > depth_im.width - self.min_dist_from_boundary

\* (the subsample is drawn before the empty exit)
suction_setup_choice_first(self, f, s) ==
    LET nonzero_px  == nonzero_pixels(mask_binary(f.im, f.segmask))
        num_nonzero_px == Len(nonzero_px)
        sample_size == Min2(self.max_num_samples, num_nonzero_px)
        c == choice(Iota(num_nonzero_px), sample_size, RngNext(s))
    IN  IF num_nonzero_px = 0
        THEN [f |-> [f EXCEPT !.pc = "done", !.result = <<>>, !.draws = @ + 1],
              rng |-> RngNext(s)]
        ELSE [f |-> [f EXCEPT !.pc = "loop", !.nonzero_px = nonzero_px,
                              !.sample_size = sample_size, !.indices = c.out,
                              !.k = 0, !.grasps = <<>>,
                              !.draws = @ + sample_size + 1],
              rng |-> c.rng]

\* lines up to the while loop: masking, projection, the empty exit and the
\* random subsample
suction_setup(self, f, s) ==
    LET nonzero_px  == nonzero_pixels(mask_binary(f.im, f.segmask))
        num_nonzero_px == Len(nonzero_px)
        sample_size == Min2(self.max_num_samples, num_nonzero_px)
        c == choice(Iota(num_nonzero_px), sample_size, s)
    IN  IF num_nonzero_px = 0
        THEN [f |-> [f EXCEPT !.pc = "done", !.result = <<>>], rng |-> s]
        ELSE [f |-> [f EXCEPT !.pc = "loop", !.nonzero_px = nonzero_px,
                              !.sample_size = sample_size, !.indices = c.out,
                              !.k = 0, !.grasps = <<>>,
                              !.draws = @ + sample_size],
              rng |-> c.rng]

\* what the loops do with a candidate that passed the geometric checks
accept_candidate(f, candidate) ==
    LET called == f.constraint_fn # None
        keep   == f.constraint_fn = None \/ ApplyConstraint(f.constraint_fn, candidate)
    IN  [f EXCEPT !.survivors = Append(@, candidate),
                  !.constraint_calls = IF called THEN Append(@, candidate) ELSE @,
                  !.grasps = IF keep THEN Append(@, candidate) ELSE @]

\* (the boundary test's continue comes before k += 1)
suction_iteration_continue_first(self, f, s) ==
    LET ind       == f.indices[f.k + 1]
        pt        == f.nonzero_px[ind]
        center_px == <<pt.px[2], pt.px[1]>>
        axis      == Neg3(pt.normal)
        f1        == [f EXCEPT !.k = @ + 1]
        delta_depth == self.mean_depth + NormalDraw(s)
        depth     == pt.z + delta_depth
        f2        == [f1 EXCEPT !.draws = @ + 1]
        candidate == [center |-> center_px, axis |-> axis, depth |-> depth]
    IN  IF suction_outside_boundary(self, center_px, f.im)
        THEN [f |-> f, rng |-> s]
        ELSE IF psi_within_max(axis, self.max_suction_dir_optical_axis_angle)
             THEN [f |-> accept_candidate(f2, candidate), rng |-> RngNext(s)]
             ELSE [f |-> f2, rng |-> RngNext(s)]

\* one iteration of the while loop of the suction sampler
suction_iteration(self, f, s) ==
    LET ind       == f.indices[f.k + 1]
        pt        == f.nonzero_px[ind]
        center_px == <<pt.px[2], pt.px[1]>>
        axis      == Neg3(pt.normal)
        f1        == [f EXCEPT !.k = @ + 1]
        delta_depth == self.mean_depth + NormalDraw(s)
        depth     == pt.z + delta_depth
        f2        == [f1 EXCEPT !.draws = @ + 1]
        candidate == [center |-> center_px, axis |-> axis, depth |-> depth]
    IN  IF suction_outside_boundary(self, center_px, f.im)
        THEN [f |-> f1, rng |-> s]
        ELSE IF psi_within_max(axis, self.max_suction_dir_optical_axis_angle)
             THEN [f |-> accept_candidate(f2, candidate), rng |-> RngNext(s)]
             ELSE [f |-> f2, rng |-> RngNext(s)]

------------------------------------------------------------------------------
(* DepthImageMultiSuctionPointSampler._sample_suction_points *)

\* (no "skip bad axes": a zero normal goes on to the pose and the tests)
multi_suction_iteration_unguarded(self, f, s) ==
    LET ind       == f.indices[f.k + 1]
        pt        == f.nonzero_px[ind]
        center_px == <<pt.px[2], pt.px[1]>>
        axis      == Neg3(pt.normal)
        f1        == [f EXCEPT !.k = @ + 1, !.draws = @ + 1]
        y_axis    == IF axis[1] = 0 /\ axis[2] = 0 THEN <<1, 0, 0>>
                     ELSE <<axis[2], -axis[1], 0>>
        pose      == [x_axis |-> axis, y_axis |-> y_axis, orientation |-> s,
                      translation |-> <<center_px[1], center_px[2], pt.z>>]
        candidate == [center |-> center_px, axis |-> axis, pose |-> pose]
    IN  IF suction_outside_boundary(self, center_px, f.im)
        THEN [f |-> f1, rng |-> RngNext(s)]
        ELSE IF psi_within_max(axis, self.max_suction_dir_optical_axis_angle)
             THEN [f |-> accept_candidate(f1, candidate), rng |-> RngNext(s)]
             ELSE [f |-> f1, rng |-> RngNext(s)]

\* one iteration of the while loop of the multi-suction sampler
multi_suction_iteration(self, f, s) ==
    LET ind       == f.indices[f.k + 1]
        pt        == f.nonzero_px[ind]
        center_px == <<pt.px[2], pt.px[1]>>
        axis      == Neg3(pt.normal)
        orientation == s
        f1        == [f EXCEPT !.k = @ + 1, !.draws = @ + 1]
        x_axis    == axis
        y_axis    == IF axis[1] = 0 /\ axis[2] = 0 THEN <<1, 0, 0>>
                     ELSE <<axis[2], -axis[1], 0>>
        pose      == [x_axis |-> x_axis, y_axis |-> y_axis,
                      orientation |-> orientation,
                      translation |-> <<center_px[1], center_px[2], pt.z>>]
        candidate == [center |-> center_px, axis |-> axis, pose |-> pose]
    IN  IF NormSq3(axis) = 0
        THEN [f |-> f1, rng |-> RngNext(s)]
        ELSE IF suction_outside_boundary(self, center_px, f.im)
        THEN [f |-> f1, rng |-> RngNext(s)]
        ELSE IF psi_within_max(axis, self.max_suction_dir_optical_axis_angle)
             THEN [f |-> accept_candidate(f1, candidate), rng |-> RngNext(s)]
             ELSE [f |-> f1, rng |-> RngNext(s)]

------------------------------------------------------------------------------
(* Images handed to the antipodal sampler: the (smoothed) depth data, its  *)
(* gradient, the pixels threshold_gradients(...).zero_pixels() reports at  *)
(* the downsampled and at the full resolution (row-major), and the focal   *)
(* length of camera_intr.                                                  *)

Pixels(h, w) == (0..(h - 1)) \X (0..(w - 1))

DepthFlat == [p \in Pixels(3, 4) |-> 5]
DepthHole == [p \in Pixels(3, 4) |-> IF p = <<0, 0>> THEN 0 ELSE 5]
DepthDark == [p \in Pixels(3, 4) |-> 0]
\* a nearer pixel beside the edge pixels of row 1
DepthStep == [p \in Pixels(3, 4) |-> IF p = <<0, 1>> THEN 2 ELSE 5]

GradZero == [p \in Pixels(3, 4) |-> <<0, 0>>]
\* normals along the lines that join the edge pixels
GradAligned ==
    [p \in Pixels(3, 4) |->
        CASE p = <<0, 0>> -> <<0, -1>>  []  p = <<0, 2>> -> <<0, 1>>
          [] p = <<0, 3>> -> <<-1, 0>>  []  p = <<1, 0>> -> <<0, -1>>
          [] p = <<1, 2>> -> <<0, 1>>   []  p = <<2, 3>> -> <<1, 0>>
          [] OTHER -> <<0, 0>>]
\* opposite normals, perpendicular to the line that joins the two pixels
GradAcross ==
    [p \in Pixels(3, 4) |->
        CASE p = <<1, 0>> -> <<-1, 0>>  []  p = <<1, 2>> -> <<1, 0>>
          [] OTHER -> <<0, 0>>]

\* as GradAligned, but the normals of the column-3 pair lie across their line
GradMixed ==
    [p \in Pixels(3, 4) |->
        CASE p = <<0, 0>> -> <<0, -1>>  []  p = <<0, 2>> -> <<0, 1>>
          [] p = <<0, 3>> -> <<0, -1>>  []  p = <<1, 0>> -> <<0, -1>>
          [] p = <<1, 2>> -> <<0, 1>>   []  p = <<2, 3>> -> <<0, 1>>
          [] OTHER -> <<0, 0>>]

EdgesNone == <<>>
EdgesOne  == << <<1, 0>> >>
EdgesRow  == << <<1, 0>>, <<1, 2>> >>
EdgesFour == << <<0, 3>>, <<1, 0>>, <<1, 2>>, <<2, 3>> >>
EdgesTop  == << <<0, 0>>, <<0, 2>>, <<1, 0>>, <<1, 2>> >>

AntipodalImage(data, grad, edges_ds, edges_full) ==
    [height |-> 3, width |-> 4, fx |-> 5, data |-> data, grad |-> grad,
     edges_ds |-> edges_ds, edges_full |-> edges_full]

AntipodalImages ==
    { AntipodalImage(DepthFlat, GradAligned, EdgesFour, EdgesFour),
      AntipodalImage(DepthFlat, GradAligned, EdgesNone, EdgesRow),
      AntipodalImage(DepthFlat, GradAligned, EdgesNone, EdgesNone),
      AntipodalImage(DepthFlat, GradAligned, EdgesOne, EdgesTop),
      AntipodalImage(DepthFlat, GradAcross, EdgesRow, EdgesRow),
      AntipodalImage(DepthFlat, GradZero, EdgesRow, EdgesRow),
      AntipodalImage(DepthHole, GradAligned, EdgesFour, EdgesFour),
      AntipodalImage(DepthDark, GradAligned, EdgesRow, EdgesRow),
      AntipodalImage(DepthStep, GradMixed, EdgesFour, EdgesFour) }

Uniform == "uniform"
ModeMin == "min"
ModeMax == "max"

One == [m |-> 1, q |-> 1]

\* the value of grasp_angle_sigma that perturbs the angle, in degrees
Deg45 == 45

AntipodalConfigs ==
    { c \in
        [type : {"antipodal_depth"},
         gripper_width : {2, 3},
         friction_coef : {One},
         max_rejection_samples : {1, 2},
         min_num_edge_pixels : {0, 2},
         min_dist_from_boundary : {0, 1},
         depth_samples_per_grasp : {1, 2},
         min_depth_offset : {0, -3},
         max_depth_offset : {1},
         h : {1}, w : {1},
         depth_sampling_mode : {Uniform, ModeMin, ModeMax},
         grasp_center_sigma : {0, 1},
         \* in degrees; __init__ converts with np.deg2rad
         grasp_angle_sigma : {0, Deg45}] :
        \* the parameters of the pipeline and those of the loop vary in turn
        \/ /\ c.depth_samples_per_grasp = 1 /\ c.depth_sampling_mode = Uniform
           /\ c.grasp_center_sigma = 0 /\ c.min_dist_from_boundary = 1
           /\ c.min_depth_offset = 0 /\ c.grasp_angle_sigma = 0
        \/ /\ c.gripper_width = 3 /\ c.max_rejection_samples = 2
           /\ c.min_num_edge_pixels = 0
           /\ c.min_depth_offset = 0 /\ c.grasp_angle_sigma = 0
        \/ /\ c.gripper_width = 3 /\ c.max_rejection_samples = 1
           /\ c.min_num_edge_pixels = 0 /\ c.depth_samples_per_grasp = 2
           /\ c.depth_sampling_mode = Uniform /\ c.grasp_center_sigma = 0
           /\ c.min_dist_from_boundary = 0
           /\ c.min_depth_offset = 0 /\ c.grasp_angle_sigma = 0
        \* a negative depth offset or a perturbed angle
        \/ /\ c.gripper_width = 3 /\ c.max_rejection_samples = 2
           /\ c.min_num_edge_pixels = 0 /\ c.depth_samples_per_grasp = 1
           /\ c.depth_sampling_mode = Uniform /\ c.grasp_center_sigma = 0
           /\ c.min_dist_from_boundary = 0
           /\ (c.min_depth_offset = 0) # (c.grasp_angle_sigma = 0) }

------------------------------------------------------------------------------
(* AntipodalDepthImageGraspSampler *)

\* _surface_normals at one edge pixel: the gradient (dy, dx), or (1, 0) when
\* it is zero; the vector stands for the normal divided by its norm
surface_normal(depth_im, pix) ==
    LET normal_vec == depth_im.grad[pix]
    IN  IF NormSq2(normal_vec) = 0 THEN <<1, 0>> ELSE normal_vec

\* _sample_depth, in units of 1/RngMod of a depth unit
sample_depth(self, min_depth, max_depth, s) ==
    IF self.depth_sampling_mode = Uniform
    THEN min_depth * RngMod + (max_depth - min_depth) * s
    ELSE IF self.depth_sampling_mode = ModeMin
    THEN min_depth * RngMod
    ELSE max_depth * RngMod

\* (the segmask is not applied to the edge pixels)
filter_edges_skipped(edge_pixels, segmask) == edge_pixels

\* [p for p in edge_pixels if np.any(segmask[p[0], p[1]] > 0)]
filter_edges(edge_pixels, segmask) ==
    SelectSeq(edge_pixels, LAMBDA p : InMask(segmask, p))

\* how often the full-resolution detection runs: the one if of lines 346-354
full_res_runs(self, depth_im, segmask) ==
    IF Len(filter_edges(depth_im.edges_ds, segmask)) < self.min_num_edge_pixels
    THEN 1 ELSE 0

\* (the full-resolution pixels are not filtered by the segmask again)
edge_pixels_of_unfiltered(self, depth_im, segmask) ==
    LET first == filter_edges(depth_im.edges_ds, segmask)
    IN  IF Len(first) < self.min_num_edge_pixels
        THEN depth_im.edges_full
        ELSE first

\* the edge pixels: downsampled detection, segmask filter, and the
\* full-resolution detection when there are too few
edge_pixels_of(self, depth_im, segmask) ==
    LET first == filter_edges(depth_im.edges_ds, segmask)
    IN  IF Len(first) < self.min_num_edge_pixels
        THEN filter_edges(depth_im.edges_full, segmask)
        ELSE first

\* compute edge pixels, exit if there are none
edge_detect(self, f, s) ==
    LET edge_pixels == edge_pixels_of(self, f.im, f.segmask)
        runs == full_res_runs(self, f.im, f.segmask)
    IN  IF Len(edge_pixels) = 0
        THEN [f |-> [f EXCEPT !.pc = "done", !.result = <<>>,
                              !.full_res_runs = runs],
              rng |-> s]
        ELSE [f |-> [f EXCEPT !.pc = "prune", !.edge_pixels = edge_pixels,
                              !.full_res_runs = runs],
              rng |-> s]

\* depth_im_mask.data[depth_im_mask.data > 0]
positive_depths(depth_im, segmask) ==
    { depth_im.data[p] : p \in { q \in DOMAIN depth_im.data :
                                   InMask(segmask, q) /\ depth_im.data[q] > 0 } }

SetMin(S) == CHOOSE x \in S : \A y \in S : x <= y

\* Grasp2D(..., min_depth, width=gripper_width, camera_intr).width_px is
\* the distance in pixels of two points width apart at that depth, the
\* magnitude of fx * width / depth; dists < max_grasp_width_px compares the
\* squares
within_width(self, depth_im, min_depth, p, q) ==
    NormSq2(Sub2(p, q)) * min_depth * min_depth
        < depth_im.fx * self.gripper_width * depth_im.fx * self.gripper_width

\* normal_ip < -cos(arctan(friction_coef))
normals_opposed(self, n1, n2) ==
    LET c == CosArctan(self.friction_coef)
    IN  CosGreater([n |-> -c.n, d |-> c.d], UnitDot(n1, n2))

\* the first pass: the ordered pairs np.where keeps, in row-major order
first_pass(self, depth_im, edge_pixels, min_depth) ==
    LET n == Len(edge_pixels)
        keep(ij) ==
            LET p == edge_pixels[ij[1]]
                q == edge_pixels[ij[2]]
            IN  /\ normals_opposed(self, surface_normal(depth_im, p),
                                   surface_normal(depth_im, q))
                /\ within_width(self, depth_im, min_depth, p, q)
                /\ NormSq2(Sub2(p, q)) > 0
    IN  SelectSeq([x \in 1..(n * n) |-> <<((x - 1) \div n) + 1, ((x - 1) % n) + 1>>],
                  keep)

\* (the connecting line is taken from p2 to p1 for the first cone only)
second_pass_keeps_one_sided(self, depth_im, p1, p2) ==
    LET v     == Sub2(p1, p2)
        ip1   == Clamp(UnitDot(surface_normal(depth_im, p1), v))
        ip2   == Clamp(UnitDot(surface_normal(depth_im, p2), v))
        alpha == CosArctan(self.friction_coef)
    IN  ArccosLess(ip1, alpha) /\ ArccosLess(ip2, alpha)

\* the second pass on one pair: beta1 < alpha and beta2 < alpha
second_pass_keeps(self, depth_im, p1, p2) ==
    LET v     == Sub2(p1, p2)
        ip1   == Clamp(UnitDot(surface_normal(depth_im, p1), v))
        ip2   == Clamp(UnitDot(surface_normal(depth_im, p2), Neg2(v)))
        alpha == CosArctan(self.friction_coef)
    IN  ArccosLess(ip1, alpha) /\ ArccosLess(ip2, alpha)

\* the indices into the first-pass pairs that the second pass keeps
second_pass(self, depth_im, edge_pixels, valid_indices) ==
    SelectSeq(Iota(Len(valid_indices)),
              LAMBDA x : second_pass_keeps(self, depth_im,
                                           edge_pixels[valid_indices[x][1]],
                                           edge_pixels[valid_indices[x][2]]))

\* (the subsample is as large as the pool of antipodal pairs)
antipodal_setup_no_ceiling(self, f, s) ==
    LET depths == positive_depths(f.im, f.segmask)
        min_depth == SetMin(depths) + self.min_depth_offset
        valid_indices == first_pass(self, f.im, f.edge_pixels, min_depth)
        antipodal_indices == second_pass(self, f.im, f.edge_pixels, valid_indices)
        num_pairs == Len(antipodal_indices)
        sample_size == num_pairs
        c == choice(antipodal_indices, sample_size, s)
    IN  IF depths = {}
        THEN [f |-> [f EXCEPT !.pc = "raised"], rng |-> s]
        ELSE IF Len(valid_indices) = 0
        THEN [f |-> [f EXCEPT !.pc = "done", !.result = <<>>], rng |-> s]
        ELSE IF num_pairs = 0
        THEN [f |-> [f EXCEPT !.pc = "done", !.result = <<>>,
                              !.valid_indices = valid_indices],
              rng |-> s]
        ELSE [f |-> [f EXCEPT !.pc = "loop", !.valid_indices = valid_indices,
                              !.antipodal_indices = antipodal_indices,
                              !.sample_size = sample_size, !.indices = c.out,
                              !.k = 0, !.grasps = <<>>,
                              !.draws = @ + sample_size],
              rng |-> c.rng]

\* (an empty second pass is reported as an error)
antipodal_setup_raising(self, f, s) ==
    LET depths == positive_depths(f.im, f.segmask)
        min_depth == SetMin(depths) + self.min_depth_offset
        valid_indices == first_pass(self, f.im, f.edge_pixels, min_depth)
        antipodal_indices == second_pass(self, f.im, f.edge_pixels, valid_indices)
        num_pairs == Len(antipodal_indices)
        sample_size == Min2(self.max_rejection_samples, num_pairs)
        c == choice(antipodal_indices, sample_size, s)
    IN  IF depths = {} \/ Len(valid_indices) = 0 \/ num_pairs = 0
        THEN [f |-> [f EXCEPT !.pc = "raised"], rng |-> s]
        ELSE [f |-> [f EXCEPT !.pc = "loop", !.valid_indices = valid_indices,
                              !.antipodal_indices = antipodal_indices,
                              !.sample_size = sample_size, !.indices = c.out,
                              !.k = 0, !.grasps = <<>>,
                              !.draws = @ + sample_size],
              rng |-> c.rng]

\* from the depth range to the random subsample of the antipodal pairs;
\* np.min of an empty array raises ValueError
antipodal_setup(self, f, s) ==
    LET depths == positive_depths(f.im, f.segmask)
        min_depth == SetMin(depths) + self.min_depth_offset
        valid_indices == first_pass(self, f.im, f.edge_pixels, min_depth)
        antipodal_indices == second_pass(self, f.im, f.edge_pixels, valid_indices)
        num_pairs == Len(antipodal_indices)
        sample_size == Min2(self.max_rejection_samples, num_pairs)
        c == choice(antipodal_indices, sample_size, s)
    IN  IF depths = {}
        THEN [f |-> [f EXCEPT !.pc = "raised"], rng |-> s]
        ELSE IF Len(valid_indices) = 0
        THEN [f |-> [f EXCEPT !.pc = "done", !.result = <<>>], rng |-> s]
        ELSE IF num_pairs = 0
        THEN [f |-> [f EXCEPT !.pc = "done", !.result = <<>>,
                              !.valid_indices = valid_indices],
              rng |-> s]
        ELSE [f |-> [f EXCEPT !.pc = "loop", !.valid_indices = valid_indices,
                              !.antipodal_indices = antipodal_indices,
                              !.sample_size = sample_size, !.indices = c.out,
                              !.k = 0, !.grasps = <<>>,
                              !.draws = @ + sample_size],
              rng |-> c.rng]

RECURSIVE RngAfter(_, _)
\* the generator state n draws after state s
RngAfter(s, n) == IF n = 0 THEN s ELSE RngAfter(RngNext(s), n - 1)

\* the index range a Python slice [lo:hi] selects from n elements
SliceStart(i, n) == IF i < 0 THEN (IF i + n < 0 THEN 0 ELSE i + n) ELSE Min2(i, n)
PySlice(lo, hi, n) == SliceStart(lo, n)..(SliceStart(hi, n) - 1)

\* depth_im.data[c0-h:c0+h, c1-w:c1+w], as the set of its pixels
depth_window(self, depth_im, grasp_center) ==
    PySlice(grasp_center[1] - self.h, grasp_center[1] + self.h, depth_im.height)
        \X PySlice(grasp_center[2] - self.w, grasp_center[2] + self.w, depth_im.width)

\* the boundary test of the antipodal sampler on grasp_center = (row, col)
antipodal_outside_boundary(self, grasp_center, depth_im) ==
    \/ grasp_center[1] < self.min_dist_from_boundary
    \/ grasp_center[2] < self.min_dist_from_boundary
    \/ grasp_center[1] > depth_im.height - self.min_dist_from_boundary
    \/ grasp_center[2] > depth_im.width - self.min_dist_from_boundary

\* the candidates one pair yields: one per depth sample, each with its own
\* rand() draw; the depth is in units of 1/RngMod of a depth unit
depth_samples(self, f, s, center_depth, base) ==
    LET min_depth == center_depth + self.min_depth_offset
        max_depth == center_depth + self.max_depth_offset
    IN  [i \in 1..self.depth_samples_per_grasp |->
            [base EXCEPT !.depth = min_depth * RngMod
                                   + (max_depth - min_depth) * RngAfter(s, i - 1)]]

\* one iteration of the while loop of the antipodal sampler
antipodal_iteration(self, f, s) ==
    LET grasp_ind == f.indices[f.k + 1]
        p1 == f.edge_pixels[f.valid_indices[grasp_ind][1]]
        p2 == f.edge_pixels[f.valid_indices[grasp_ind][2]]
        n1 == surface_normal(f.im, p1)
        n2 == surface_normal(f.im, p2)
        grasp_center == <<(p1[1] + p2[1]) \div 2, (p1[2] + p2[2]) \div 2>>
        grasp_axis   == Sub2(p2, p1)
        perturb_center == self.grasp_center_sigma > 0
        perturb_angle  == self.grasp_angle_sigma > 0
        grasp_center_pt ==
            IF perturb_center
            THEN Add2(<<grasp_center[2], grasp_center[1]>>, NormalDraw2(s))
            ELSE <<grasp_center[2], grasp_center[1]>>
        s1 == IF perturb_center THEN RngNext(s) ELSE s
        angle_noise == IF perturb_angle THEN NormalDraw(s1) ELSE 0
        s2 == IF perturb_angle THEN RngNext(s1) ELSE s1
        f1 == [f EXCEPT !.k = @ + 1,
                        !.draws = @ + (IF perturb_center THEN 1 ELSE 0)
                                    + (IF perturb_angle THEN 1 ELSE 0)]
        depth_win == depth_window(self, f.im, grasp_center)
        center_depth == SetMin({ f.im.data[p] : p \in depth_win })
        base == [center |-> grasp_center_pt, axis |-> grasp_axis,
                 angle_noise |-> angle_noise, depth |-> 0,
                 width |-> self.gripper_width, window_min |-> center_depth,
                 contact_points |-> <<p1, p2>>, contact_normals |-> <<n1, n2>>]
        new == depth_samples(self, f, s2, center_depth, base)
    IN  IF antipodal_outside_boundary(self, grasp_center, f.im)
        THEN [f |-> f1, rng |-> s2]
        ELSE IF depth_win = {}
        THEN [f |-> [f1 EXCEPT !.pc = "raised"], rng |-> s2]
        ELSE IF center_depth = 0
        THEN [f |-> f1, rng |-> s2]
        ELSE [f |-> [f1 EXCEPT !.grasps = @ \o new, !.survivors = @ \o new,
                               !.draws = @ + Len(new)],
              rng |-> RngAfter(s2, Len(new))]

------------------------------------------------------------------------------
(* ImageGraspSampler.sample and the steps of a call *)

\* (the generator is left as it was)
seed_ignored(seed, s) == s

\* (the seed is mixed into the state instead of replacing it)
seed_mixed_in(seed, s) == IF seed # NoSeed THEN (s + seed[1]) % RngMod ELSE s

\* (np.random.seed is called whether a seed is given or not; without one it
\* re-seeds the generator afresh)
seed_unconditional(seed, s) ==
    IF seed # NoSeed THEN SeedState(seed[1]) ELSE RngNext(s)

\* if seed is not None: np.random.seed(seed)
seed_generator(seed, s) == IF seed # NoSeed THEN SeedState(seed[1]) ELSE s

\* the frame of a call that has seeded the generator and entered _sample
entry_frame(im, num_samples, segmask, seed, constraint_fn) ==
    [IdleFrame EXCEPT !.pc = "sample", !.im = im, !.num_samples = num_samples,
                      !.segmask = segmask, !.seed = seed,
                      !.constraint_fn = constraint_fn]

IsSuction(self) == self.type \in {"suction", "multi_suction"}

\* (the loop goes on to the end of the subsample)
loop_continues_to_end(f) == f.k < f.sample_size

\* while k < sample_size and len(grasps) < num_samples
loop_continues(f) == f.k < f.sample_size /\ Len(f.grasps) < f.num_samples

\* return grasps
loop_exit(f) == [f EXCEPT !.pc = "done", !.result = f.grasps]

Finished(f) == f.pc \in {"done", "raised"}
Active(f) == f.pc \notin {"idle", "done", "raised"}

\* the next step of a call in progress
step(self, f, s) ==
    IF f.pc = "sample"
    THEN (IF IsSuction(self) THEN suction_setup(self, f, s)
          ELSE edge_detect(self, f, s))
    ELSE IF f.pc = "prune" THEN antipodal_setup(self, f, s)
    ELSE IF ~loop_continues(f) THEN [f |-> loop_exit(f), rng |-> s]
    ELSE IF self.type = "suction" THEN suction_iteration(self, f, s)
    ELSE IF self.type = "multi_suction" THEN multi_suction_iteration(self, f, s)
    ELSE antipodal_iteration(self, f, s)

RECURSIVE run(_, _, _)
\* a call run to its end with no other user of the generator
run(self, f, s) ==
    IF Finished(f) THEN f
    ELSE LET r == step(self, f, s) IN run(self, r.f, r.rng)

\* what the call of frame f returns when it runs alone in a fresh process
solo(self, f) ==
    LET g == run(self, entry_frame(f.im, f.num_samples, f.segmask, f.seed,
                                   f.constraint_fn),
                 seed_generator(f.seed, 0))
    IN  [pc |-> g.pc, result |-> g.result]

\* thread t takes a step whose outcome is r; a call in progress on another
\* thread notes that the generator changed under it
Move(t, r) ==
    /\ rng' = r.rng
    /\ frame' = [o \in Threads |->
                    IF o = t THEN r.f
                    ELSE IF Active(frame[o]) /\ r.rng # rng
                         THEN [frame[o] EXCEPT !.disturbed = TRUE]
                         ELSE frame[o]]
    /\ UNCHANGED <<sampler, fixed_in, fc_in, fc_out, built, trainer>>

Take(t, r) == Move(t, r) /\ UNCHANGED memo

ImagesFor(self) == IF IsSuction(self) THEN SuctionImages ELSE AntipodalImages

\* sample(): seed the generator, call _sample
Sample(t, im, num_samples, segmask, seed, constraint_fn) ==
    /\ frame[t].pc = "idle"
    /\ Take(t, [f |-> entry_frame(im, num_samples, segmask, seed, constraint_fn),
                rng |-> seed_generator(seed, rng)])

EdgeDetect(t) ==
    /\ frame[t].pc = "sample" /\ ~IsSuction(sampler)
    /\ Take(t, edge_detect(sampler, frame[t], rng))

AntipodalSetup(t) ==
    /\ frame[t].pc = "prune"
    /\ Take(t, antipodal_setup(sampler, frame[t], rng))

AntipodalIteration(t) ==
    /\ frame[t].pc = "loop" /\ sampler.type = "antipodal_depth"
    /\ loop_continues(frame[t])
    /\ Take(t, antipodal_iteration(sampler, frame[t], rng))

SuctionSetup(t) ==
    /\ frame[t].pc = "sample" /\ IsSuction(sampler)
    /\ Take(t, suction_setup(sampler, frame[t], rng))

SuctionIteration(t) ==
    /\ frame[t].pc = "loop" /\ sampler.type = "suction"
    /\ loop_continues(frame[t])
    /\ Take(t, suction_iteration(sampler, frame[t], rng))

MultiSuctionIteration(t) ==
    /\ frame[t].pc = "loop" /\ sampler.type = "multi_suction"
    /\ loop_continues(frame[t])
    /\ Take(t, multi_suction_iteration(sampler, frame[t], rng))

LoopExit(t) ==
    /\ frame[t].pc = "loop"
    /\ ~loop_continues(frame[t])
    /\ Take(t, [f |-> loop_exit(frame[t]), rng |-> rng])

\* the caller has the list (or the exception); the frame is gone
Return(t) ==
    /\ Finished(frame[t])
    /\ Take(t, [f |-> IdleFrame, rng |-> rng])


------------------------------------------------------------------------------
(* The constructors and ImageGraspSamplerFactory.sampler.  A config is a   *)
(* function from the keys it holds to their values; an object is its class *)
(* and the attributes __init__ has set.                                    *)

\* np.deg2rad, in milliradians
deg2rad(x) == (x * 3142) \div 180

\* the keys each __init__ reads with self._config[...], in the order read
AntipodalRequired ==
    << "gripper_width", "friction_coef", "depth_grad_thresh",
       "depth_grad_gaussian_sigma", "downsample_rate", "max_rejection_samples",
       "max_dist_from_center", "min_dist_from_boundary", "min_grasp_dist",
       "angle_dist_weight", "depth_samples_per_grasp", "min_depth_offset",
       "max_depth_offset", "depth_sample_win_height", "depth_sample_win_width",
       "depth_sampling_mode" >>

SuctionRequired ==
    << "max_suction_dir_optical_axis_angle", "max_dist_from_center",
       "min_dist_from_boundary", "max_num_samples", "delta_theta", "delta_phi",
       "sigma_depth", "min_suction_dist", "angle_dist_weight",
       "depth_gaussian_sigma" >>

\* the keys read only under "if key in self._config.keys()"
AntipodalOptional == {"min_num_edge_pixels", "grasp_center_sigma", "grasp_angle_sigma"}
SuctionOptional == {"mean_depth"}

\* config[key] if the key is there, else the value the attribute was given
\* first
optional(config, key, default) ==
    IF key \in DOMAIN config THEN config[key] ELSE default

\* the first key of keys that config lacks (self._config[key] raises
\* KeyError), or None
RECURSIVE first_missing(_, _)
first_missing(config, keys) ==
    IF keys = <<>> THEN None
    ELSE IF Head(keys) \notin DOMAIN config THEN Head(keys)
    ELSE first_missing(config, Tail(keys))

NoObject == [class |-> None, attrs |-> <<>>]

\* what a constructor call comes to: the object, or the exception
Constructed(class, attrs) ==
    [object |-> [class |-> class, attrs |-> attrs], error |-> None, key |-> None]
Raised(error, key) == [object |-> NoObject, error |-> error, key |-> key]

\* (a missing key is read as config.get(key): the attribute is left out)
antipodal_init_tolerant(config) ==
    Constructed("AntipodalDepthImageGraspSampler",
        [a \in (DOMAIN config) \cap Range(AntipodalRequired) |-> config[a]])

\* AntipodalDepthImageGraspSampler.__init__
antipodal_init(config) ==
    LET missing == first_missing(config, AntipodalRequired)
    IN  IF missing # None THEN Raised("KeyError", missing)
        ELSE Constructed("AntipodalDepthImageGraspSampler",
                [gripper_width |-> config["gripper_width"],
                 friction_coef |-> config["friction_coef"],
                 depth_grad_thresh |-> config["depth_grad_thresh"],
                 depth_grad_gaussian_sigma |-> config["depth_grad_gaussian_sigma"],
                 downsample_rate |-> config["downsample_rate"],
                 rescale_factor |-> [m |-> 1, q |-> config["downsample_rate"]],
                 max_rejection_samples |-> config["max_rejection_samples"],
                 min_num_edge_pixels |-> optional(config, "min_num_edge_pixels", 0),
                 max_dist_from_center |-> config["max_dist_from_center"],
                 min_dist_from_boundary |-> config["min_dist_from_boundary"],
                 min_grasp_dist |-> config["min_grasp_dist"],
                 angle_dist_weight |-> config["angle_dist_weight"],
                 depth_samples_per_grasp |->
                    IF config["depth_samples_per_grasp"] > 1
                    THEN config["depth_samples_per_grasp"] ELSE 1,
                 min_depth_offset |-> config["min_depth_offset"],
                 max_depth_offset |-> config["max_depth_offset"],
                 h |-> config["depth_sample_win_height"],
                 w |-> config["depth_sample_win_width"],
                 depth_sampling_mode |-> config["depth_sampling_mode"],
                 grasp_center_sigma |-> optional(config, "grasp_center_sigma", 0),
                 grasp_angle_sigma |->
                    IF "grasp_angle_sigma" \in DOMAIN config
                    THEN deg2rad(config["grasp_angle_sigma"]) ELSE 0])

\* DepthImageSuctionPointSampler.__init__ and, line for line the same,
\* DepthImageMultiSuctionPointSampler.__init__
suction_init(class, config) ==
    LET missing == first_missing(config, SuctionRequired)
        mean_depth == optional(config, "mean_depth", 0)
    IN  IF missing # None THEN Raised("KeyError", missing)
        ELSE Constructed(class,
                [max_suction_dir_optical_axis_angle |->
                    deg2rad(config["max_suction_dir_optical_axis_angle"]),
                 max_dist_from_center |-> config["max_dist_from_center"],
                 min_dist_from_boundary |-> config["min_dist_from_boundary"],
                 max_num_samples |-> config["max_num_samples"],
                 min_theta |-> -deg2rad(config["delta_theta"]),
                 max_theta |-> deg2rad(config["delta_theta"]),
                 theta_rv |-> [loc |-> -deg2rad(config["delta_theta"]),
                               scale |-> 2 * deg2rad(config["delta_theta"])],
                 min_phi |-> -deg2rad(config["delta_phi"]),
                 max_phi |-> deg2rad(config["delta_phi"]),
                 phi_rv |-> [loc |-> -deg2rad(config["delta_phi"]),
                             scale |-> 2 * deg2rad(config["delta_phi"])],
                 mean_depth |-> mean_depth,
                 sigma_depth |-> config["sigma_depth"],
                 depth_rv |-> [loc |-> mean_depth,
                               scale |-> config["sigma_depth"] * config["sigma_depth"]],
                 min_suction_dist |-> config["min_suction_dist"],
                 angle_dist_weight |-> config["angle_dist_weight"],
                 depth_gaussian_sigma |-> config["depth_gaussian_sigma"]])

\* (a key the factory does not know gets the antipodal sampler)
factory_with_fallback(sampler_type, config) ==
    IF sampler_type = "suction"
    THEN suction_init("DepthImageSuctionPointSampler", config)
    ELSE IF sampler_type = "multi_suction"
    THEN suction_init("DepthImageMultiSuctionPointSampler", config)
    ELSE antipodal_init(config)

\* ImageGraspSamplerFactory.sampler
factory_sampler(sampler_type, config) ==
    IF sampler_type = "antipodal_depth" THEN antipodal_init(config)
    ELSE IF sampler_type = "suction"
    THEN suction_init("DepthImageSuctionPointSampler", config)
    ELSE IF sampler_type = "multi_suction"
    THEN suction_init("DepthImageMultiSuctionPointSampler", config)
    ELSE Raised("ValueError", None)

\* the attributes the sampling methods of a class read (self._name), and the
\* keys they read from self._config: none
sampling_attrs(class) ==
    IF class = "AntipodalDepthImageGraspSampler"
    THEN {"depth_grad_gaussian_sigma", "depth_grad_thresh",
          "depth_samples_per_grasp", "friction_coef", "grasp_angle_sigma",
          "grasp_center_sigma", "gripper_width", "h", "max_depth_offset",
          "max_rejection_samples", "min_depth_offset", "min_dist_from_boundary",
          "min_num_edge_pixels", "rescale_factor", "w"}
    ELSE IF class = "DepthImageSuctionPointSampler"
    THEN {"depth_rv", "max_num_samples", "max_suction_dir_optical_axis_angle",
          "min_dist_from_boundary"}
    ELSE {"max_num_samples", "max_suction_dir_optical_axis_angle",
          "min_dist_from_boundary"}

sampling_config_keys(class) == {}

\* the first name of names that is not among have, or None
first_absent(names, have) ==
    IF names \subseteq have THEN None ELSE CHOOSE a \in names : a \notin have

\* a sample() call on a constructed object, as far as its reads of the
\* object and of the config go
sampling_reads(object, config) ==
    LET key  == first_absent(sampling_config_keys(object.class), DOMAIN config)
        attr == first_absent(sampling_attrs(object.class), DOMAIN object.attrs)
    IN  IF key # None THEN [error |-> "KeyError", key |-> key]
        ELSE IF attr # None THEN [error |-> "AttributeError", key |-> attr]
        ELSE [error |-> None, key |-> None]

NoConfig == <<>>
\* No training run is part of the state.
NoTrainer == [pc |-> "none"]

NoBuild ==
    [pc |-> "none", sampler_type |-> None, config |-> NoConfig,
     object |-> NoObject, error |-> None, key |-> None]

------------------------------------------------------------------------------

(* Spec: one thread calls sample() again and again on one sampler *)

Samplers ==
    AntipodalConfigs \cup SuctionConfigs("suction") \cup SuctionConfigs("multi_suction")

NoMemo == [seed \in Seeds |-> [known |-> FALSE, pc |-> "idle", result |-> <<>>]]
NoFixed == [im |-> NoImage, num_samples |-> 0, segmask |-> NoMask, constraint_fn |-> None]
NoFc == [p1 |-> <<0, 0>>, p2 |-> <<0, 0>>, n1 |-> <<1, 0>>, n2 |-> <<1, 0>>, mu |-> One]
NoFcOut == [known |-> FALSE, value |-> FALSE, swapped |-> FALSE]

Init ==
    /\ sampler \in Samplers
    /\ rng \in 0..(RngMod - 1)
    /\ frame = [t \in Threads |-> IdleFrame]
    /\ memo = NoMemo
    /\ fixed_in = NoFixed
    /\ fc_in = NoFc
    /\ fc_out = NoFcOut
    /\ built = NoBuild
    /\ trainer = NoTrainer

Call(t) ==
    \E im \in ImagesFor(sampler), num_samples \in 0..MaxNumSamples,
       segmask \in Segmasks, seed \in {NoSeed, <<0>>},
       constraint_fn \in ConstraintFns :
        Sample(t, im, num_samples, segmask, seed, constraint_fn)

Next ==
    \/ Call(1)
    \/ EdgeDetect(1)
    \/ AntipodalSetup(1)
    \/ AntipodalIteration(1)
    \/ SuctionSetup(1)
    \/ SuctionIteration(1)
    \/ MultiSuctionIteration(1)
    \/ LoopExit(1)
    \/ Return(1)

Spec == Init /\ [][Next]_vars

------------------------------------------------------------------------------
(* SpecDet: calls that differ in nothing but the seed and the state the    *)
(* generator was left in; memo keeps what the last call with each seed     *)
(* returned.                                                               *)

DetSamplers ==
    { c \in Samplers :
        IF IsSuction(c) THEN c.max_num_samples = 3
        ELSE /\ c.gripper_width = 3 /\ c.max_rejection_samples = 2
             /\ c.min_num_edge_pixels = 0 /\ c.depth_sampling_mode = Uniform }

InitDet ==
    /\ sampler \in DetSamplers
    /\ rng \in 0..(RngMod - 1)
    /\ frame = [t \in Threads |-> IdleFrame]
    /\ memo = NoMemo
    /\ fixed_in \in [im : ImagesFor(sampler), num_samples : {MaxNumSamples},
                     segmask : Segmasks, constraint_fn : ConstraintFns]
    /\ fc_in = NoFc
    /\ fc_out = NoFcOut
    /\ built = NoBuild
    /\ trainer = NoTrainer

DetCall(t) ==
    \E seed \in Seeds \cup {NoSeed} :
        Sample(t, fixed_in.im, fixed_in.num_samples, fixed_in.segmask, seed,
               fixed_in.constraint_fn)

\* the call returns or raises; a seeded call's outcome is remembered
DetReturn(t) ==
    /\ Finished(frame[t])
    /\ Move(t, [f |-> IdleFrame, rng |-> rng])
    /\ memo' = IF frame[t].seed = NoSeed THEN memo
               ELSE [memo EXCEPT ![frame[t].seed] =
                        [known |-> TRUE, pc |-> frame[t].pc,
                         result |-> frame[t].result]]

NextDet ==
    \/ DetCall(1)
    \/ EdgeDetect(1)
    \/ AntipodalSetup(1)
    \/ AntipodalIteration(1)
    \/ SuctionSetup(1)
    \/ SuctionIteration(1)
    \/ MultiSuctionIteration(1)
    \/ LoopExit(1)
    \/ DetReturn(1)

SpecDet == InitDet /\ [][NextDet]_vars

------------------------------------------------------------------------------
(* SpecPar: two threads call sample() with seeds on one sampler; the steps *)
(* of the two calls interleave, and both draw from the one generator.      *)

ParSamplers ==
    { c \in Samplers :
        IF IsSuction(c)
        THEN /\ c.max_num_samples = 3 /\ c.min_dist_from_boundary = 0
             /\ c.max_suction_dir_optical_axis_angle = Cos90
        ELSE /\ c.gripper_width = 3 /\ c.max_rejection_samples = 2
             /\ c.min_num_edge_pixels = 0 /\ c.depth_sampling_mode = Uniform
             /\ c.min_dist_from_boundary = 1 /\ c.depth_samples_per_grasp = 1
             /\ c.grasp_center_sigma = 0 }

ParImages(self) ==
    IF IsSuction(self)
    THEN { im \in SuctionImages : Len(im.points) = 3 /\ im.points[1].px = <<1, 2>> }
    ELSE { AntipodalImage(DepthFlat, GradAligned, EdgesFour, EdgesFour) }

InitPar ==
    /\ sampler \in ParSamplers
    /\ rng \in 0..(RngMod - 1)
    /\ frame = [t \in Threads |-> IdleFrame]
    /\ memo = NoMemo
    /\ fixed_in = NoFixed
    /\ fc_in = NoFc
    /\ fc_out = NoFcOut
    /\ built = NoBuild
    /\ trainer = NoTrainer

ParCall(t) ==
    \E im \in ParImages(sampler), seed \in {<<0>>, <<MaxSeed>>} :
        Sample(t, im, MaxNumSamples, NoMask, seed, None)

NextPar ==
    \E t \in Threads :
        \/ ParCall(t)
        \/ EdgeDetect(t)
        \/ AntipodalSetup(t)
        \/ AntipodalIteration(t)
        \/ SuctionSetup(t)
        \/ SuctionIteration(t)
        \/ MultiSuctionIteration(t)
        \/ LoopExit(t)
        \/ Return(t)

SpecPar == InitPar /\ [][NextPar]_vars

------------------------------------------------------------------------------
(* SpecFC: force_closure applied to every input of a bounded set *)

FcPoints == (0..MaxCoord) \X (0..MaxCoord)

\* directions of the unit normals
FcNormals ==
    { <<1, 0>>, <<-1, 0>>, <<0, 1>>, <<0, -1>>, <<1, 1>>, <<-1, -1>>,
      <<1, -1>>, <<-1, 1>>, <<2, 1>>, <<-2, -1>> }

FcFrictions ==
    { [m |-> 0, q |-> 1], [m |-> 1, q |-> 2], [m |-> 1, q |-> 1], [m |-> 2, q |-> 1] }

InitFC ==
    /\ sampler \in { c \in ParSamplers : c.type = "suction" }
    /\ rng = 0
    /\ frame = [t \in Threads |-> IdleFrame]
    /\ memo = NoMemo
    /\ fixed_in = NoFixed
    /\ fc_in \in [p1 : FcPoints, p2 : FcPoints, n1 : FcNormals, n2 : FcNormals,
                  mu : FcFrictions]
    /\ fc_out = NoFcOut
    /\ built = NoBuild
    /\ trainer = NoTrainer

ForceClosureCall ==
    /\ ~fc_out.known
    /\ fc_out' = [known |-> TRUE,
                  value |-> force_closure(fc_in.p1, fc_in.p2, fc_in.n1, fc_in.n2,
                                          fc_in.mu),
                  swapped |-> force_closure(fc_in.p2, fc_in.p1, fc_in.n2, fc_in.n1,
                                            fc_in.mu)]
    /\ UNCHANGED <<sampler, rng, frame, memo, fixed_in, fc_in, built, trainer>>

NextFC == ForceClosureCall

SpecFC == InitFC /\ [][NextFC]_vars

------------------------------------------------------------------------------
(* Properties *)

Done(t) == frame[t].pc = "done"
Returned(t) == Range(frame[t].result)
IsAntipodal == sampler.type = "antipodal_depth"

\* C1: for every sampler strategy and every num_samples >= 0 the list sample()
\* returns is no longer than num_samples, whatever depth_samples_per_grasp is.
CandidateCountBound ==
    \A t \in Threads :
        Done(t) => Len(frame[t].result) <= frame[t].num_samples

\* C2: two calls on one sampler with the same image, num_samples, segmask
\* (and constraint function) and the same seed end alike and return the same
\* list, whatever state the generator was in before each call.
SeededCallsAgree ==
    \A t \in Threads :
        (Finished(frame[t]) /\ frame[t].seed # NoSeed /\ memo[frame[t].seed].known)
        => /\ memo[frame[t].seed].pc = frame[t].pc
           /\ memo[frame[t].seed].result = frame[t].result

\* a seeded call that drew from the generator returns a candidate, and an
\* earlier call with the same seed has returned
SeededCallRepeated ==
    \E t \in Threads :
        /\ Done(t) /\ frame[t].seed # NoSeed /\ memo[frame[t].seed].known
        /\ frame[t].draws >= 2 /\ frame[t].result # <<>>

\* C3: in mode 'min' every returned Grasp2D has the depth minDepth of its
\* window (window minimum + min_depth_offset), in mode 'max' the depth
\* maxDepth (window minimum + max_depth_offset).
DepthFollowsSamplingMode ==
    \A t \in Threads :
        (Done(t) /\ IsAntipodal) =>
            \A g \in Returned(t) :
                /\ sampler.depth_sampling_mode = ModeMin
                    => g.depth = (g.window_min + sampler.min_depth_offset) * RngMod
                /\ sampler.depth_sampling_mode = ModeMax
                    => g.depth = (g.window_min + sampler.max_depth_offset) * RngMod

\* C4: the center pixel every returned candidate carries is at least
\* min_dist_from_boundary away from each of the four image edges.
CenterAwayFromBoundary ==
    \A t \in Threads :
        Done(t) =>
            \A g \in Returned(t) :
                /\ g.center[1] >= sampler.min_dist_from_boundary
                /\ g.center[1] <= frame[t].im.width - sampler.min_dist_from_boundary
                /\ g.center[2] >= sampler.min_dist_from_boundary
                /\ g.center[2] <= frame[t].im.height - sampler.min_dist_from_boundary

\* the cosine of the angle between an approach axis and the optical axis
\* (0,0,1); the dot product of a zero axis is 0
OpticalAxisCos(axis) ==
    IF NormSq3(axis) = 0 THEN [n |-> 0, d |-> 1]
    ELSE [n |-> Sign(axis[3]) * axis[3] * axis[3], d |-> NormSq3(axis)]

\* C5: every candidate the suction and multi-suction samplers return has an
\* approach axis whose angle to the optical axis is strictly less than
\* max_suction_dir_optical_axis_angle.
SuctionAngleBelowMax ==
    \A t \in Threads :
        (Done(t) /\ IsSuction(sampler)) =>
            \A g \in Returned(t) :
                LET c == OpticalAxisCos(g.axis)
                    m == sampler.max_suction_dir_optical_axis_angle
                IN  c.n * m.d > m.n * c.d

\* a call that returned a candidate has examined, inside the boundary, a
\* pixel whose angle equals the maximum, and did not return it
EqualAngleExaminedAndRejected ==
    \E t \in Threads :
        /\ Done(t) /\ IsSuction(sampler) /\ frame[t].result # <<>>
        /\ \E j \in 1..frame[t].k :
              LET pt == frame[t].nonzero_px[frame[t].indices[j]]
                  c  == OpticalAxisCos(Neg3(pt.normal))
                  m  == sampler.max_suction_dir_optical_axis_angle
              IN  /\ c.n * m.d = m.n * c.d
                  /\ ~suction_outside_boundary(sampler, <<pt.px[2], pt.px[1]>>,
                                               frame[t].im)
                  /\ \A g \in Returned(t) : g.center # <<pt.px[2], pt.px[1]>>

\* C6: when a constraint function is passed, no returned candidate fails it,
\* and it is called exactly once for each candidate that survived the
\* geometric checks and for no other.
ConstraintApplied ==
    \A t \in Threads :
        (Done(t) /\ frame[t].constraint_fn # None) =>
            /\ \A g \in Returned(t) : ApplyConstraint(frame[t].constraint_fn, g)
            /\ frame[t].constraint_calls = frame[t].survivors

Outcome(t) == [pc |-> frame[t].pc, result |-> frame[t].result]

\* C7 as stated: in every interleaving of two seeded calls each call returns
\* the list it returns when run alone with its seed.
ParallelCallsAsAlone ==
    \A t \in Threads :
        Finished(frame[t]) => Outcome(t) = solo(sampler, frame[t])

\* C7 as amended: a seeded call returns the list it returns when run alone
\* provided no other call seeded or drew from the generator between its own
\* seeding and its return.
UndisturbedCallAsAlone ==
    \A t \in Threads :
        (Finished(frame[t]) /\ ~frame[t].disturbed)
            => Outcome(t) = solo(sampler, frame[t])

\* a call returned candidates undisturbed while the other thread's call,
\* already under way, had the generator changed under it
UndisturbedBesideDisturbed ==
    \E t \in Threads, o \in Threads :
        /\ t # o /\ Done(t) /\ ~frame[t].disturbed /\ frame[t].result # <<>>
        /\ frame[t].draws >= 2
        /\ Active(frame[o]) /\ frame[o].disturbed

EmptySuctionResult ==
    \A t \in Threads :
        (Finished(frame[t]) /\ IsSuction(sampler)
         /\ SelectPts(frame[t].im.points, frame[t].segmask) = <<>>)
            => /\ frame[t].pc = "done" /\ frame[t].result = <<>>
               /\ frame[t].draws = 0

\* a call ended on an image whose nonzero pixels the segmask all removed
MaskedImageEmpty ==
    \E t \in Threads :
        /\ Done(t) /\ IsSuction(sampler)
        /\ frame[t].segmask.present /\ frame[t].im.points # <<>>
        /\ SelectPts(frame[t].im.points, frame[t].segmask) = <<>>
        /\ frame[t].result = <<>>

\* C10: force_closure(p1, p2, n1, n2, mu) = force_closure(p2, p1, n2, n1, mu)
\* for all p1 # p2, all unit normals and all mu >= 0.
ForceClosureSymmetric ==
    (fc_out.known /\ fc_in.p1 # fc_in.p2) => fc_out.value = fc_out.swapped

\* force_closure held for two contacts whose normals are not opposite
ForceClosureHeldSkew ==
    /\ fc_out.known /\ fc_in.p1 # fc_in.p2 /\ fc_out.value
    /\ fc_in.n1 # Neg2(fc_in.n2)

\* n is the unit vector along v: parallel to it and pointing the same way
Along(n, v) == n[1] * v[2] - n[2] * v[1] = 0 /\ Dot2(n, v) > 0

\* C11 as stated: with mu = 0 force_closure is true exactly when n1 = -v and
\* n2 = v for v = normalize(p2 - p1).
ZeroFrictionExactlyAntiparallel ==
    (fc_out.known /\ fc_in.mu.m = 0 /\ fc_in.p1 # fc_in.p2) =>
        (fc_out.value <=>
            /\ Along(fc_in.n1, Neg2(Sub2(fc_in.p2, fc_in.p1)))
            /\ Along(fc_in.n2, Sub2(fc_in.p2, fc_in.p1)))

\* C11 as amended: with mu = 0 force_closure is false for every pair of
\* normals, the exactly anti-parallel ones along the connecting line included.
ZeroFrictionNeverClosed ==
    (fc_out.known /\ fc_in.mu.m = 0 /\ fc_in.p1 # fc_in.p2) => ~fc_out.value

\* force_closure was called with mu = 0 on normals exactly along the line
ZeroFrictionAntiparallelCalled ==
    /\ fc_out.known /\ fc_in.mu.m = 0 /\ fc_in.p1 # fc_in.p2
    /\ Along(fc_in.n1, Neg2(Sub2(fc_in.p2, fc_in.p1)))
    /\ Along(fc_in.n2, Sub2(fc_in.p2, fc_in.p1))
    /\ ~fc_out.value

\* the configured ceiling of the search: max_rejection_samples of the
\* antipodal sampler, max_num_samples of the suction samplers
Ceiling(self) ==
    IF IsSuction(self) THEN self.max_num_samples ELSE self.max_rejection_samples

\* C12 as stated: a call materializes at most max_rejection_samples pairs
\* (examines at most max_num_samples pixels) and the list it returns is no
\* longer than that ceiling.
SearchCeiling ==
    \A t \in Threads :
        /\ Active(frame[t]) \/ Done(t) => frame[t].k <= Ceiling(sampler)
        /\ Done(t) => Len(frame[t].result) <= Ceiling(sampler)

\* C12 as amended: the pairs materialized (pixels examined) stay within the
\* ceiling; the returned list is no longer than the ceiling for the suction
\* samplers and than max_rejection_samples * depth_samples_per_grasp for the
\* antipodal sampler.
SearchCeilingPerDepthSample ==
    \A t \in Threads :
        /\ Active(frame[t]) \/ Done(t) => frame[t].k <= Ceiling(sampler)
        /\ Done(t) =>
            Len(frame[t].result) <=
                IF IsSuction(sampler) THEN Ceiling(sampler)
                ELSE Ceiling(sampler) * sampler.depth_samples_per_grasp

\* a call of the antipodal sampler had more pairs than the ceiling, used the
\* whole subsample and returned depth_samples_per_grasp > 1 grasps for a pair
CeilingReachedWithDepthSamples ==
    \E t \in Threads :
        /\ Done(t) /\ IsAntipodal /\ sampler.depth_samples_per_grasp > 1
        /\ Len(frame[t].antipodal_indices) > Ceiling(sampler)
        /\ frame[t].k = Ceiling(sampler)
        /\ Len(frame[t].result) = Ceiling(sampler) * sampler.depth_samples_per_grasp

\* force_closure on the pair x of the first pass, with the normals
\* _surface_normals gives at its two pixels
PairInForceClosure(f, x) ==
    LET p1 == f.edge_pixels[f.valid_indices[x][1]]
        p2 == f.edge_pixels[f.valid_indices[x][2]]
    IN  force_closure(p1, p2, surface_normal(f.im, p1), surface_normal(f.im, p2),
                      sampler.friction_coef)

\* C20: a pair that passed the first pass is kept by the second pass if and
\* only if force_closure(p1, p2, n1, n2, friction_coef) is true, and every
\* returned Grasp2D carries the contact points and normals of a kept pair,
\* which satisfy force_closure.
SecondPassIsForceClosure ==
    \A t \in Threads :
        LET f == frame[t] IN
        (IsAntipodal /\ f.valid_indices # <<>>) =>
            /\ \A x \in 1..Len(f.valid_indices) :
                  x \in Range(f.antipodal_indices) <=> PairInForceClosure(f, x)
            /\ Done(t) =>
                \A g \in Returned(t) :
                    /\ \E x \in Range(f.antipodal_indices) :
                          /\ g.contact_points[1] = f.edge_pixels[f.valid_indices[x][1]]
                          /\ g.contact_points[2] = f.edge_pixels[f.valid_indices[x][2]]
                          /\ g.contact_normals[1] = surface_normal(f.im, g.contact_points[1])
                          /\ g.contact_normals[2] = surface_normal(f.im, g.contact_points[2])
                    /\ force_closure(g.contact_points[1], g.contact_points[2],
                                     g.contact_normals[1], g.contact_normals[2],
                                     sampler.friction_coef)

\* a call returned a grasp after a second pass that kept some pairs of the
\* first pass and dropped others
SecondPassKeptSome ==
    \E t \in Threads :
        /\ Done(t) /\ IsAntipodal /\ frame[t].result # <<>>
        /\ Len(frame[t].antipodal_indices) < Len(frame[t].valid_indices)

\* grasp_theta + shift lies in (-90, 90] degrees, for the grasp_theta of lines
\* 457-459 (90 degrees when grasp_axis[1] = 0, else arctan(grasp_axis[0] /
\* grasp_axis[1])) and a shift of -45, 0 or 45 degrees
AngleWithin(grasp_axis, shift) ==
    LET r == grasp_axis[1]
        c == grasp_axis[2]
    IN  IF shift = 0 THEN TRUE
        ELSE IF shift > 0 THEN c # 0 /\ r * c <= c * c
        ELSE c = 0 \/ r * c > -(c * c)

\* C16: every Grasp2D the antipodal sampler returns has depth > 0, width >= 0
\* and an angle in (-pi/2, pi/2], also with grasp_angle_sigma > 0 and with
\* negative depth offsets.
Grasp2DInvariant ==
    \A t \in Threads :
        (Done(t) /\ IsAntipodal) =>
            \A g \in Returned(t) :
                /\ g.depth > 0
                /\ g.width >= 0
                /\ AngleWithin(g.axis, g.angle_noise * sampler.grasp_angle_sigma)

\* C17: every SuctionPoint2D the suction sampler returns has a unit-norm
\* approach axis; a pixel whose surface normal is the zero vector yields no
\* returned candidate, whatever the configured maximum angle.
SuctionAxisUnitNorm ==
    \A t \in Threads :
        (Done(t) /\ sampler.type = "suction") =>
            \A g \in Returned(t) : NormSq3(g.axis) # 0

\* C18 as stated: no step of a sample() call changes the sampler object, and
\* no step of a call with seed=None changes the state of the process-wide
\* generator.
UnseededCallLeavesGenerator ==
    [][/\ sampler' = sampler
       /\ \A t \in Threads :
            (frame'[t] # frame[t] /\ frame'[t].seed = NoSeed) => rng' = rng]_vars

\* C18 as amended: no step changes the sampler object, and the state of the
\* generator changes only when a call seeds it at entry or draws from it.
GeneratorChangedBySeedOrDraw ==
    [][/\ sampler' = sampler
       /\ rng' # rng =>
            \E t \in Threads :
                \/ /\ frame[t].pc = "idle" /\ frame'[t].seed # NoSeed
                   /\ rng' = SeedState(frame'[t].seed[1])
                \/ /\ Active(frame[t]) /\ frame'[t].draws > frame[t].draws]_vars

\* a call with seed=None returned candidates after drawing from the generator
UnseededCallDrew ==
    \E t \in Threads :
        /\ Done(t) /\ frame[t].seed = NoSeed
        /\ frame[t].draws > 0 /\ frame[t].result # <<>>

------------------------------------------------------------------------------
(* SpecLive: unseeded calls on a sampler whose loop has work to do, with a  *)
(* call in progress taking its next step: sample() is synchronous, so the  *)
(* calling thread keeps executing it until it returns or raises.           *)

\* the next statement of the call in progress on thread t
Proceed(t) ==
    \/ EdgeDetect(t)
    \/ AntipodalSetup(t)
    \/ AntipodalIteration(t)
    \/ SuctionSetup(t)
    \/ SuctionIteration(t)
    \/ MultiSuctionIteration(t)
    \/ LoopExit(t)

\* samplers whose loops have several pixels or pairs to go through
LiveSamplers ==
    { c \in Samplers :
        IF IsSuction(c)
        THEN c.max_num_samples = 3 /\ c.min_dist_from_boundary = 1
        ELSE /\ c.gripper_width = 3 /\ c.max_rejection_samples = 2
             /\ c.min_num_edge_pixels = 0 /\ c.depth_samples_per_grasp = 1
             /\ c.depth_sampling_mode = Uniform /\ c.grasp_center_sigma = 0
             /\ c.min_depth_offset = 0 /\ c.grasp_angle_sigma = 0 }

InitLive ==
    /\ sampler \in LiveSamplers
    /\ rng = 0
    /\ frame = [t \in Threads |-> IdleFrame]
    /\ memo = NoMemo
    /\ fixed_in = NoFixed
    /\ fc_in = NoFc
    /\ fc_out = NoFcOut
    /\ built = NoBuild
    /\ trainer = NoTrainer

LiveCall(t) ==
    \E im \in ImagesFor(sampler), segmask \in Segmasks :
        Sample(t, im, MaxNumSamples, segmask, NoSeed, None)

NextLive ==
    \/ LiveCall(1)
    \/ Proceed(1)
    \/ Return(1)

SpecLive == InitLive /\ [][NextLive]_vars /\ WF_vars(Proceed(1))

\* C19: every sample() call comes to its end (it returns, or raises), and
\* every iteration of a sampler's while loop, the rejecting ones included,
\* advances k by one and never past sample_size.
LoopAdvancesAndCallEnds ==
    /\ [][\A t \in Threads :
            (frame[t].pc = "loop" /\ loop_continues(frame[t])) =>
                /\ frame'[t].k = frame[t].k + 1
                /\ frame'[t].k <= frame[t].sample_size
                /\ frame'[t].sample_size = frame[t].sample_size]_vars
    /\ \A t \in Threads : Active(frame[t]) ~> Finished(frame[t])

\* a call returned after a loop in which every one of several iterations
\* rejected its candidate
CallEndedAfterRejections ==
    \E t \in Threads :
        /\ Done(t) /\ frame[t].num_samples > 0
        /\ frame[t].sample_size >= 2 /\ frame[t].k = frame[t].sample_size
        /\ frame[t].survivors = <<>>

------------------------------------------------------------------------------
(* SpecType: calls that hand sample() images of several classes *)

\* image.depth of an RgbdImage or GdImage; a DepthImage is its own depth
depth_channel(image) ==
    IF image.kind \in {"RgbdImage", "GdImage"} THEN image.channels[2]
    ELSE image.channels[1]

\* (no isinstance test: whatever comes is treated as a depth image)
typed_entry_unchecked(image, num_samples, segmask, seed, constraint_fn) ==
    [entry_frame(image.channels[Len(image.channels)], num_samples, segmask,
                 seed, constraint_fn)
        EXCEPT !.image = image]

\* the isinstance chain at the head of each _sample: the depth channel goes
\* on to the sampling method, any other class raises ValueError
typed_entry(image, num_samples, segmask, seed, constraint_fn) ==
    IF image.kind \in {"RgbdImage", "GdImage"} \/ image.kind = "DepthImage"
    THEN [entry_frame(depth_channel(image), num_samples, segmask, seed,
                      constraint_fn)
            EXCEPT !.image = image]
    ELSE [IdleFrame EXCEPT !.pc = "raised", !.image = image,
                           !.num_samples = num_samples, !.segmask = segmask,
                           !.seed = seed, !.constraint_fn = constraint_fn]

\* sample() on an image of any class: seed the generator, call _sample
TypedSample(t, image, num_samples, segmask, seed, constraint_fn) ==
    /\ frame[t].pc = "idle"
    /\ Take(t, [f |-> typed_entry(image, num_samples, segmask, seed,
                                  constraint_fn),
                rng |-> seed_generator(seed, rng)])

\* the colour (or grey) channel that comes with a depth image: an image of
\* the same size with nothing to find in it
ColorChannel(self) ==
    IF IsSuction(self) THEN [height |-> 3, width |-> 4, points |-> <<>>]
    ELSE AntipodalImage(DepthFlat, GradAligned, EdgesNone, EdgesNone)

TypedImages(self) ==
    { [kind |-> kind,
       channels |-> IF kind \in {"RgbdImage", "GdImage"}
                    THEN <<ColorChannel(self), d>> ELSE <<d>>] :
        kind \in ImageTypes \cup OtherTypes, d \in ImagesFor(self) }

TypedCall(t) ==
    \E image \in TypedImages(sampler), segmask \in Segmasks,
       seed \in {NoSeed, <<0>>} :
        TypedSample(t, image, MaxNumSamples, segmask, seed, None)

NextType ==
    \/ TypedCall(1)
    \/ Proceed(1)
    \/ Return(1)

SpecType == InitLive /\ [][NextType]_vars

\* C14: a call given an RgbdImage, a GdImage or a DepthImage works on the
\* depth channel of that image; a call given an image of any other class has
\* raised, with no candidates, and without having detected an edge, projected
\* a pixel, drawn a sample or entered the loop.
ImageTypeChecked ==
    \A t \in Threads :
        frame[t].pc # "idle" =>
            IF frame[t].image.kind \in ImageTypes
            THEN frame[t].im =
                    frame[t].image.channels[Len(frame[t].image.channels)]
            ELSE /\ frame[t].pc = "raised"
                 /\ frame[t].result = <<>> /\ frame[t].grasps = <<>>
                 /\ frame[t].edge_pixels = <<>> /\ frame[t].nonzero_px = <<>>
                 /\ frame[t].indices = <<>> /\ frame[t].draws = 0
                 /\ frame[t].k = 0

\* a call given an image of another class has raised
OtherImageTypeRaised ==
    \E t \in Threads :
        /\ frame[t].image.kind \in OtherTypes
        /\ frame[t].pc = "raised"

------------------------------------------------------------------------------
(* SpecCfg: the factory is called with a sampler type and a config, and a  *)
(* sampler it returns is then sampled from.                                *)

SamplerTypes == {"antipodal_depth", "suction", "multi_suction", "antipodal", "Suction"}

\* the value a config holds under a key
ConfigValue(key) ==
    IF key = "depth_samples_per_grasp" THEN 0
    ELSE IF key \in {"grasp_angle_sigma", "max_suction_dir_optical_axis_angle"} THEN Deg45
    ELSE IF key \in {"min_num_edge_pixels", "mean_depth"} THEN 2
    ELSE 1

\* configs with every required key of a sampler or all but one, and with any
\* of its optional keys
ConfigsOf(required, optional_keys) ==
    { [k \in (Range(required) \ drop) \cup opt |-> ConfigValue(k)] :
        drop \in {{}} \cup { {k} : k \in Range(required) },
        opt \in SUBSET optional_keys }

Configs ==
    ConfigsOf(AntipodalRequired, AntipodalOptional)
        \cup ConfigsOf(SuctionRequired, SuctionOptional)

NoSampler == [type |-> None]

InitCfg ==
    /\ sampler = NoSampler
    /\ rng = 0
    /\ frame = [t \in Threads |-> IdleFrame]
    /\ memo = NoMemo
    /\ fixed_in = NoFixed
    /\ fc_in = NoFc
    /\ fc_out = NoFcOut
    /\ built = NoBuild
    /\ trainer = NoTrainer

\* ImageGraspSamplerFactory.sampler(sampler_type, config)
FactoryCall ==
    /\ built.pc = "none"
    /\ \E sampler_type \in SamplerTypes, config \in Configs :
        LET r == factory_sampler(sampler_type, config)
        IN  built' = [pc |-> IF r.error = None THEN "built" ELSE "failed",
                      sampler_type |-> sampler_type, config |-> config,
                      object |-> r.object, error |-> r.error, key |-> r.key]
    /\ UNCHANGED <<sampler, rng, frame, memo, fixed_in, fc_in, fc_out, trainer>>

\* sample() on the sampler the factory returned
SampleBuilt ==
    /\ built.pc = "built"
    /\ LET r == sampling_reads(built.object, built.config)
       IN  built' = [built EXCEPT
                        !.pc = IF r.error = None THEN "sampled" ELSE "sample_failed",
                        !.error = r.error, !.key = r.key]
    /\ UNCHANGED <<sampler, rng, frame, memo, fixed_in, fc_in, fc_out, trainer>>

\* the caller drops the sampler, or has seen the exception
Discard ==
    /\ built.pc \in {"failed", "sampled", "sample_failed"}
    /\ built' = NoBuild
    /\ UNCHANGED <<sampler, rng, frame, memo, fixed_in, fc_in, fc_out, trainer>>

NextCfg ==
    \/ FactoryCall
    \/ SampleBuilt
    \/ Discard

SpecCfg == InitCfg /\ [][NextCfg]_vars

\* the class the factory is to return for a key, and the keys its
\* constructor needs
ClassFor(sampler_type) ==
    IF sampler_type = "antipodal_depth" THEN "AntipodalDepthImageGraspSampler"
    ELSE IF sampler_type = "suction" THEN "DepthImageSuctionPointSampler"
    ELSE IF sampler_type = "multi_suction" THEN "DepthImageMultiSuctionPointSampler"
    ELSE None
RequiredFor(sampler_type) ==
    IF sampler_type = "antipodal_depth" THEN Range(AntipodalRequired)
    ELSE Range(SuctionRequired)
OptionalFor(sampler_type) ==
    IF sampler_type = "antipodal_depth" THEN AntipodalOptional ELSE SuctionOptional

\* C13: for the keys 'antipodal_depth', 'suction' and 'multi_suction' the
\* factory never raises its own error, what it returns is of the class
\* that goes with the key, and with a config that has the constructor's
\* keys it does return; for any other key it raises ValueError and returns
\* no sampler.
FactoryReturnsByKey ==
    built.pc # "none" =>
        IF ClassFor(built.sampler_type) = None
        THEN /\ built.pc = "failed" /\ built.error = "ValueError"
             /\ built.object.class = None /\ DOMAIN built.object.attrs = {}
        ELSE /\ built.error # "ValueError"
             /\ built.object.class \in {None, ClassFor(built.sampler_type)}
             /\ RequiredFor(built.sampler_type) \subseteq DOMAIN built.config
                    => built.object.class = ClassFor(built.sampler_type)

\* the factory raised for an unknown key although the config was complete
UnknownKeyRaised ==
    /\ built.pc = "failed" /\ built.error = "ValueError"
    /\ Range(AntipodalRequired) \subseteq DOMAIN built.config

\* C15: a config that lacks a required key makes the constructor raise
\* KeyError for a key it lacks and no sampler is made; with the required keys
\* the sampler is made and sampling from it raises no missing-key or
\* missing-attribute error, the sampling methods reading no config key the
\* constructor has not read; and an optional key that is absent leaves its
\* attribute 0.
FailFastConfig ==
    (built.pc # "none" /\ ClassFor(built.sampler_type) # None) =>
        LET required == RequiredFor(built.sampler_type)
        IN  IF required \subseteq DOMAIN built.config
            THEN /\ built.pc \in {"built", "sampled"} /\ built.error = None
                 /\ sampling_config_keys(built.object.class)
                        \subseteq required \cup OptionalFor(built.sampler_type)
                 /\ \A k \in OptionalFor(built.sampler_type) \ DOMAIN built.config :
                        built.object.attrs[k] = 0
            ELSE /\ built.pc = "failed" /\ built.error = "KeyError"
                 /\ built.key \in required \ DOMAIN built.config
                 /\ built.object.class = None

\* a constructor raised KeyError for the one required key its config lacked
RequiredKeyMissedAtConstruction ==
    /\ built.pc = "failed" /\ built.error = "KeyError"
    /\ ClassFor(built.sampler_type) # None
    /\ RequiredFor(built.sampler_type) \ DOMAIN built.config = {built.key}

\* the frame has been through the two pruning passes
Pruned(f) ==
    /\ f.edge_pixels # <<>>
    /\ f.pc = "loop" \/ f.pc = "done"

\* the first-pass test as stated, on edge pixels i and j of the frame:
\* opposed normals and a distance d with 0 < d <= max_grasp_width_px
FirstPassAsStated(f, i, j) ==
    LET p == f.edge_pixels[i]
        q == f.edge_pixels[j]
        min_depth == SetMin(positive_depths(f.im, f.segmask)) + sampler.min_depth_offset
        d2 == NormSq2(Sub2(p, q))
    IN  /\ normals_opposed(sampler, surface_normal(f.im, p), surface_normal(f.im, q))
        /\ d2 > 0
        /\ d2 * min_depth * min_depth
             <= f.im.fx * sampler.gripper_width * f.im.fx * sampler.gripper_width

\* C21: after the first pass the kept ordered pairs are exactly those with
\* opposed normals and a pixel distance d, 0 < d <= max_grasp_width_px; in
\* particular no kept pair has p1 = p2.
FirstPassKeepsUpToWidth ==
    \A t \in Threads :
        (IsAntipodal /\ Pruned(frame[t])) =>
            \A i, j \in 1..Len(frame[t].edge_pixels) :
                (<<i, j>> \in Range(frame[t].valid_indices))
                    <=> FirstPassAsStated(frame[t], i, j)

\* the midpoint (row, col) of the pair the loop of frame f examines next
NextGraspCenter(f) ==
    LET grasp_ind == f.indices[f.k + 1]
        p1 == f.edge_pixels[f.valid_indices[grasp_ind][1]]
        p2 == f.edge_pixels[f.valid_indices[grasp_ind][2]]
    IN  <<(p1[1] + p2[1]) \div 2, (p1[2] + p2[2]) \div 2>>

\* C22: an iteration of the antipodal loop whose pair passes the boundary
\* test, and whose depth window around the unperturbed center holds a pixel
\* of valid (nonzero) depth, yields all depth_samples_per_grasp candidates.
DepthWindowSkippedOnlyWithoutValidDepth ==
    [][\A t \in Threads :
        (/\ IsAntipodal /\ frame[t].pc = "loop" /\ loop_continues(frame[t])
         /\ frame'[t] # frame[t]
         /\ ~antipodal_outside_boundary(sampler, NextGraspCenter(frame[t]), frame[t].im)
         /\ \E p \in depth_window(sampler, frame[t].im, NextGraspCenter(frame[t])) :
                frame[t].im.data[p] > 0)
        => Len(frame'[t].survivors)
             = Len(frame[t].survivors) + sampler.depth_samples_per_grasp]_vars

\* the frame has been through edge detection
EdgesDetected(f) == f.pc \in {"prune", "loop", "done", "raised"}

\* C23: in a call of the antipodal sampler the full-resolution detection has
\* run once if the downsampled detection, filtered by the segmask, found
\* fewer than min_num_edge_pixels pixels, and not at all otherwise (so never
\* with min_num_edge_pixels = 0); when it has run, the edge pixels are its
\* result filtered by the segmask, however few, else the first result.
FullResolutionFallback ==
    \A t \in Threads :
        (IsAntipodal /\ EdgesDetected(frame[t])) =>
            LET f     == frame[t]
                first == SelectSeq(f.im.edges_ds, LAMBDA p : InMask(f.segmask, p))
                again == SelectSeq(f.im.edges_full, LAMBDA p : InMask(f.segmask, p))
            IN  /\ f.full_res_runs = IF Len(first) < sampler.min_num_edge_pixels
                                     THEN 1 ELSE 0
                /\ sampler.min_num_edge_pixels = 0 => f.full_res_runs = 0
                /\ f.edge_pixels = IF f.full_res_runs = 1 THEN again ELSE first

\* the full-resolution detection ran under a segmask and its filtered result,
\* other than the first one and than the unfiltered one, went on to pruning
FallbackReplacedEdgePixels ==
    \E t \in Threads :
        /\ IsAntipodal /\ frame[t].pc = "prune" /\ frame[t].full_res_runs = 1
        /\ frame[t].segmask.present
        /\ frame[t].edge_pixels # frame[t].im.edges_full
        /\ Len(frame[t].edge_pixels) > Len(frame[t].im.edges_ds)

\* the place in the subsample of the element candidate g was made from: a
\* projected pixel for the suction samplers, an antipodal pair otherwise
SubsamplePlace(f, g) ==
    CHOOSE j \in 1..Len(f.indices) :
        IF IsSuction(sampler)
        THEN f.nonzero_px[f.indices[j]].px = <<g.center[2], g.center[1]>>
        ELSE /\ f.edge_pixels[f.valid_indices[f.indices[j]][1]] = g.contact_points[1]
             /\ f.edge_pixels[f.valid_indices[f.indices[j]][2]] = g.contact_points[2]

\* C24: in and after the loop the subsample holds sample_size distinct
\* elements; the candidates collected so far come from the first k of them,
\* in that order; the count was below num_samples when the last examined
\* element was taken up; and a call that returns fewer than num_samples
\* candidates has examined all sample_size elements.
SubsampleExaminedInOrder ==
    \A t \in Threads :
        (frame[t].pc \in {"loop", "done"} /\ frame[t].sample_size > 0) =>
            LET f     == frame[t]
                place == [i \in 1..Len(f.grasps) |-> SubsamplePlace(f, f.grasps[i])]
            IN  /\ Len(f.indices) = f.sample_size
                /\ \A i, j \in 1..Len(f.indices) : f.indices[i] = f.indices[j] => i = j
                /\ f.k <= f.sample_size
                /\ \A i \in 1..Len(f.grasps) :
                        /\ place[i] <= f.k
                        /\ i > 1 => place[i - 1] <= place[i]
                        /\ (i > 1 /\ IsSuction(sampler)) => place[i - 1] < place[i]
                /\ f.k > 0 =>
                        Cardinality({ i \in 1..Len(f.grasps) : place[i] < f.k })
                            < f.num_samples
                /\ (f.pc = "done" /\ Len(f.result) < f.num_samples)
                        => f.k = f.sample_size
                /\ f.pc = "done" => f.result = f.grasps

\* a call stopped early: it returned num_samples candidates with elements of
\* its subsample left unexamined
StoppedAtRequestedCount ==
    \E t \in Threads :
        /\ Done(t) /\ frame[t].k > 0 /\ frame[t].k < frame[t].sample_size
        /\ Len(frame[t].result) = frame[t].num_samples

\* C25: in a call of the antipodal sampler with a segmask both contact points
\* of every candidate, collected or returned, are pixels where the segmask is
\* nonzero, whether or not the full-resolution detection ran.
ContactsInsideSegmask ==
    \A t \in Threads :
        (IsAntipodal /\ frame[t].segmask.present) =>
            \A g \in Range(frame[t].grasps) \cup Range(frame[t].result) :
                /\ g.contact_points[1] \in frame[t].segmask.px
                /\ g.contact_points[2] \in frame[t].segmask.px

\* a call with a segmask returned a grasp found after the full-resolution
\* detection, on an image with edge pixels outside the segmask
MaskedGraspAfterFallback ==
    \E t \in Threads :
        /\ IsAntipodal /\ Done(t) /\ frame[t].segmask.present
        /\ frame[t].full_res_runs = 1 /\ frame[t].result # <<>>
        /\ \E p \in Range(frame[t].im.edges_full) : p \notin frame[t].segmask.px

\* C26: an iteration of the multi-suction loop on a pixel whose normal has
\* zero norm adds no candidate and advances k by one; and every candidate the
\* loop has made has a nonzero x-axis, the negated normal of its pixel, and a
\* y-axis that is perpendicular to it and can be scaled to unit length
\* (nonzero), (1,0,0) when the normal has no x and y component.
ZeroNormalSkippedAndCounted ==
    [][\A t \in Threads :
        (/\ sampler.type = "multi_suction" /\ frame[t].pc = "loop"
         /\ loop_continues(frame[t]) /\ frame'[t] # frame[t]) =>
            LET f  == frame[t]
                pt == f.nonzero_px[f.indices[f.k + 1]]
            IN  /\ NormSq3(pt.normal) = 0 =>
                    /\ frame'[t].k = f.k + 1
                    /\ frame'[t].survivors = f.survivors
                    /\ frame'[t].grasps = f.grasps
                /\ \A g \in Range(frame'[t].survivors) :
                    /\ NormSq3(g.pose.x_axis) # 0
                    /\ \E q \in Range(f.nonzero_px) :
                        /\ <<q.px[2], q.px[1]>> = g.center
                        /\ g.pose.x_axis = <<-q.normal[1], -q.normal[2], -q.normal[3]>>
                    /\ NormSq3(g.pose.y_axis) # 0
                    /\ g.pose.x_axis[1] * g.pose.y_axis[1]
                         + g.pose.x_axis[2] * g.pose.y_axis[2]
                         + g.pose.x_axis[3] * g.pose.y_axis[3] = 0
                    /\ (g.pose.x_axis[1] = 0 /\ g.pose.x_axis[2] = 0)
                            => g.pose.y_axis = <<1, 0, 0>>]_vars

\* a multi-suction call examined a pixel with a zero normal, which used up
\* one of its draws, and made a candidate from a normal with an x component
ZeroNormalUsedADraw ==
    \E t \in Threads :
        /\ sampler.type = "multi_suction" /\ Done(t)
        /\ frame[t].k = frame[t].sample_size
        /\ \E j \in 1..frame[t].k :
            NormSq3(frame[t].nonzero_px[frame[t].indices[j]].normal) = 0
        /\ Len(frame[t].survivors) < frame[t].k
        /\ \E g \in Range(frame[t].survivors) : g.pose.y_axis # <<1, 0, 0>>

\* ---------------------------------------------------------------------------
\* GQCNNTrainerTF (src/gqcnn/training/tf/trainer_tf.py): the training thread
\* of _optimize_weights, its SIGINT handler and the queue thread running
\* _load_and_enqueue, over the shared fields self.sess, self.term_event,
\* self.dead_event, self.queue_thread_exited and self.forceful_exit.
\* ---------------------------------------------------------------------------

\* cfg['train_batch_size']
train_batch_size == 3

\* cfg['max_training_examples_per_load']
max_training_examples_per_load == 2

\* dataset.num_tensors: the files np.random.choice draws file_num from
num_tensors == 2

\* The most training indices train_index_map holds for one file.
MaxTrainInd == 2

\* The most steps training_range holds.
MaxSteps == 1

\* GeneralConstants.QUEUE_CAPACITY of the FIFOQueue behind enqueue_op
QUEUE_CAPACITY == 1

Files == 0..(num_tensors - 1)

\* The statements of _optimize_weights from queue_thread.start() on that lie
\* inside its try block.
InTry == {"init", "loop", "step", "final_eval"}

\* The statements after the try block.
AfterTry == {"check_dead_final", "set_term", "close", "wait", "close_again",
             "del_sess", "log_exit"}

\* The training thread is inside train().
InTrain == InTry \cup AfterTry \cup {"except", "except_close", "except_del"}

\* The state _setup and _setup_tensorflow leave, with the queue thread
\* started: session open, both events clear, both flags False.
NewTrainer(index_map, steps) ==
    [pc |-> "train",
     train_index_map |-> index_map,
     num_steps |-> steps,
     step |-> 0,
     main_pc |-> "init",
     handler_pc |-> "idle",
     queue_pc |-> "outer",
     sess |-> "open",
     term_event |-> FALSE,
     dead_event |-> FALSE,
     queue_thread_exited |-> FALSE,
     forceful_exit |-> FALSE,
     q_len |-> 0,
     num_queued |-> 0,
     start_i |-> 0,
     end_i |-> 0,
     file_num |-> 0,
     num_remaining |-> 0,
     num_loaded |-> 0,
     buffer |-> [p \in 0..(train_batch_size - 1) |-> 0],
     term_seen |-> FALSE,
     after_delete |-> {}]

\* self.sess.<call>() at the given line: with the attribute deleted the
\* lookup fails, which the record keeps.
sess_used(tr, line) ==
    IF tr.sess = "deleted"
    THEN [tr EXCEPT !.after_delete = @ \cup {line}]
    ELSE tr

\* --- the queue thread: _load_and_enqueue ---

\* while not self.term_event.is_set(): the loop head with the reset of the
\* counters and the fresh buffers
queue_outer(tr) ==
    IF tr.term_event
    THEN [tr EXCEPT !.queue_pc = "set_dead"]
    ELSE [tr EXCEPT !.queue_pc = "fill",
                    !.num_queued = 0, !.start_i = 0, !.end_i = 0,
                    !.file_num = 0,
                    !.num_remaining = 0, !.num_loaded = 0,
                    !.buffer = [p \in 0..(train_batch_size - 1) |-> 0]]

\* upper = min(num_remaining, train_ind.shape[0], max_training_examples_per_load) without num_remaining
upper_ignoring_remaining(num_remaining, n_train_ind) ==
    Min2(n_train_ind, max_training_examples_per_load)

\* upper = min(num_remaining, train_ind.shape[0], max_training_examples_per_load)
upper(num_remaining, n_train_ind) ==
    Min2(Min2(num_remaining, n_train_ind), max_training_examples_per_load)

\* One pass of 'while start_i < self.train_batch_size' with file_num drawn.
queue_fill(tr, file_num) ==
    IF ~(tr.start_i < train_batch_size)
    THEN [tr EXCEPT !.queue_pc = "term_check"]
    ELSE LET num_remaining == train_batch_size - tr.num_queued
             num_loaded == upper(num_remaining, tr.train_index_map[file_num])
             end_i == tr.start_i + num_loaded
         IN  IF num_loaded = 0
             THEN [tr EXCEPT !.file_num = file_num,
                             !.num_remaining = num_remaining, !.num_loaded = 0]
             ELSE [tr EXCEPT
                      !.file_num = file_num,
                      !.num_remaining = num_remaining,
                      !.num_loaded = num_loaded,
                      !.end_i = end_i,
                      !.buffer = [p \in 0..(train_batch_size - 1) |->
                                     IF tr.start_i <= p /\ p < end_i
                                     THEN tr.buffer[p] + 1 ELSE tr.buffer[p]],
                      !.start_i = end_i,
                      !.num_queued = tr.num_queued + num_loaded]

\* if not self.term_event.is_set():
queue_term_check(tr) ==
    [tr EXCEPT !.term_seen = tr.term_event,
               !.queue_pc = IF tr.term_event THEN "outer" ELSE "enqueue"]

\* self.sess.run(self.enqueue_op, ...) is entered; a failed lookup of
\* self.sess is swallowed by the bare except.
queue_enqueue(tr) ==
    IF tr.sess = "deleted"
    THEN [sess_used(tr, 1271) EXCEPT !.queue_pc = "outer"]
    ELSE [tr EXCEPT !.queue_pc = "enqueuing"]

\* The enqueue op can end only when the queue has room: closing the session
\* does not cancel it.
enqueue_can_end_with_room_only(tr) == tr.q_len < QUEUE_CAPACITY

\* The enqueue op can end: the queue has room, or the session is gone.
enqueue_can_end(tr) == tr.sess # "open" \/ tr.q_len < QUEUE_CAPACITY

\* The enqueue op ends: the batch is in the queue, or the op was cancelled
\* by the close of the session and the bare except swallows the error.
queue_enqueuing(tr) ==
    IF tr.sess = "open"
    THEN [tr EXCEPT !.q_len = @ + 1, !.queue_pc = "outer"]
    ELSE [tr EXCEPT !.queue_pc = "outer"]

\* self.dead_event.set()
queue_set_dead(tr) == [tr EXCEPT !.dead_event = TRUE, !.queue_pc = "set_exited"]

\* self.queue_thread_exited = True
queue_set_exited(tr) ==
    [tr EXCEPT !.queue_thread_exited = TRUE, !.queue_pc = "exited"]

\* --- the training thread: _optimize_weights from line 338 on ---

\* _check_dead_queue
check_dead_queue(tr) ==
    IF tr.dead_event
    THEN [sess_used(tr, 166) EXCEPT !.sess = "deleted"]
    ELSE tr

\* An exception reaches the training thread at its current statement: the
\* except clause takes it inside the try block, otherwise it leaves train().
main_raise(tr) ==
    [tr EXCEPT !.main_pc = IF tr.main_pc \in InTry THEN "except" ELSE "raised"]

\* self.sess.<call>() of the training thread at the given line, which fails
\* unless the session is open.
main_sess_call(tr, line, ok) ==
    IF tr.sess = "open" THEN ok ELSE main_raise(sess_used(tr, line))

\* The optimization step can end: a batch is queued, or the call fails.
step_can_end(tr) == tr.sess # "open" \/ tr.q_len > 0

\* The statement the training thread is at.
main_step(tr) ==
    CASE tr.main_pc = "init" ->
           main_sess_call(tr, 338, [tr EXCEPT !.main_pc = "loop"])
      [] tr.main_pc = "loop" ->
           IF tr.step < tr.num_steps
           THEN [check_dead_queue(tr) EXCEPT !.main_pc = "step"]
           ELSE [tr EXCEPT !.main_pc = "final_eval"]
      [] tr.main_pc = "step" ->
           main_sess_call(tr, 353,
               [tr EXCEPT !.q_len = @ - 1, !.step = @ + 1, !.main_pc = "loop"])
      [] tr.main_pc = "final_eval" ->
           main_sess_call(tr, 461, [tr EXCEPT !.main_pc = "check_dead_final"])
      [] tr.main_pc = "except" ->
           [tr EXCEPT !.term_event = TRUE,
                      !.main_pc = IF tr.forceful_exit THEN "raised"
                                  ELSE "except_close"]
      [] tr.main_pc = "except_close" ->
           IF tr.sess = "deleted"
           THEN [sess_used(tr, 466) EXCEPT !.main_pc = "raised"]
           ELSE [tr EXCEPT !.sess = "closed", !.main_pc = "except_del"]
      [] tr.main_pc = "except_del" ->
           [tr EXCEPT !.sess = "deleted", !.main_pc = "raised"]
      [] tr.main_pc = "check_dead_final" ->
           [check_dead_queue(tr) EXCEPT !.main_pc = "set_term"]
      [] tr.main_pc = "set_term" ->
           [tr EXCEPT !.term_event = TRUE, !.main_pc = "close"]
      [] tr.main_pc = "close" ->
           IF tr.sess = "deleted"
           THEN main_raise(sess_used(tr, 483))
           ELSE [tr EXCEPT !.sess = "closed", !.main_pc = "wait"]
      [] tr.main_pc = "wait" ->
           [tr EXCEPT !.main_pc = "close_again"]
      [] tr.main_pc = "close_again" ->
           IF tr.sess = "deleted"
           THEN main_raise(sess_used(tr, 491))
           ELSE [tr EXCEPT !.sess = "closed", !.main_pc = "del_sess"]
      [] tr.main_pc = "del_sess" ->
           [tr EXCEPT !.sess = "deleted", !.main_pc = "log_exit"]
      [] tr.main_pc = "log_exit" ->
           [tr EXCEPT !.main_pc = "returned"]

\* The training thread can take its statement: the handler is not running on
\* its stack, a blocking call can end, the busy-wait sees the flag.
main_enabled(tr) ==
    /\ tr.main_pc \in InTrain
    /\ tr.handler_pc \in {"idle", "left"}
    /\ tr.main_pc = "step" => step_can_end(tr)
    /\ tr.main_pc = "wait" => tr.queue_thread_exited

\* --- the SIGINT handler of _optimize_weights ---

\* handler(signum, frame) waiting for the queue thread before it deletes
handler_step(tr) ==
    CASE tr.handler_pc = "set_term" ->
           [tr EXCEPT !.term_event = TRUE, !.forceful_exit = TRUE,
                      !.handler_pc = "close"]
      [] tr.handler_pc = "close" ->
           IF tr.sess = "deleted"
           THEN [main_raise(sess_used(tr, 301)) EXCEPT !.handler_pc = "left"]
           ELSE [tr EXCEPT !.sess = "closed", !.handler_pc = "wait"]
      [] tr.handler_pc = "wait" ->
           [tr EXCEPT !.handler_pc = "del_sess"]
      [] tr.handler_pc = "del_sess" ->
           [tr EXCEPT !.sess = "deleted", !.handler_pc = "exit"]
      [] tr.handler_pc = "exit" ->
           [tr EXCEPT !.main_pc = "exited", !.handler_pc = "left"]

handler_enabled(tr) ==
    /\ tr.handler_pc \in {"set_term", "close", "wait", "del_sess", "exit"}
    /\ tr.handler_pc = "wait" => tr.queue_thread_exited

\* --- the statements of the queue thread other than the fill loop ---

queue_step(tr) ==
    CASE tr.queue_pc = "outer" -> queue_outer(tr)
      [] tr.queue_pc = "term_check" -> queue_term_check(tr)
      [] tr.queue_pc = "enqueue" -> queue_enqueue(tr)
      [] tr.queue_pc = "enqueuing" -> queue_enqueuing(tr)
      [] tr.queue_pc = "set_dead" -> queue_set_dead(tr)
      [] tr.queue_pc = "set_exited" -> queue_set_exited(tr)

queue_enabled(tr) ==
    /\ tr.queue_pc \in {"outer", "term_check", "enqueue", "enqueuing",
                        "set_dead", "set_exited"}
    /\ tr.queue_pc = "enqueuing" => enqueue_can_end(tr)

\* --- the training run as a state machine ---

RECURSIVE SumTo(_, _)
SumTo(index_map, n) ==
    IF n < 0 THEN 0 ELSE index_map[n] + SumTo(index_map, n - 1)

\* self.num_train: the training indices of all files, of which
\* _compute_data_metrics needs at least one.
num_train(index_map) == SumTo(index_map, num_tensors - 1)

Others == <<sampler, rng, frame, memo, fixed_in, fc_in, fc_out, built>>

InitTrain ==
    /\ sampler = NoSampler
    /\ rng = 0
    /\ frame = [t \in Threads |-> IdleFrame]
    /\ memo = NoMemo
    /\ fixed_in = NoFixed
    /\ fc_in = NoFc
    /\ fc_out = NoFcOut
    /\ built = NoBuild
    /\ \E index_map \in [Files -> 0..MaxTrainInd], steps \in 0..MaxSteps :
           /\ num_train(index_map) > 0
           /\ trainer = NewTrainer(index_map, steps)

\* The training thread takes its next statement.
TrainingStep ==
    /\ trainer.pc = "train"
    /\ main_enabled(trainer)
    /\ trainer' = main_step(trainer)
    /\ UNCHANGED Others

\* A session call of the try block raises.
TrainingRaises ==
    /\ trainer.pc = "train"
    /\ trainer.handler_pc \in {"idle", "left"}
    /\ trainer.main_pc \in {"step", "final_eval"}
    /\ trainer' = main_raise(trainer)
    /\ UNCHANGED Others

\* CTRL+C while the training thread is inside train(): the handler starts on
\* its stack.
Sigint ==
    /\ trainer.pc = "train"
    /\ trainer.handler_pc = "idle"
    /\ trainer.main_pc \in InTrain
    /\ trainer' = [trainer EXCEPT !.handler_pc = "set_term"]
    /\ UNCHANGED Others

\* The handler takes its next statement.
HandlerStep ==
    /\ trainer.pc = "train"
    /\ handler_enabled(trainer)
    /\ trainer' = handler_step(trainer)
    /\ UNCHANGED Others

\* The queue thread runs one pass of its fill loop.
Fill ==
    /\ trainer.pc = "train"
    /\ trainer.queue_pc = "fill"
    /\ \E file_num \in Files : trainer' = queue_fill(trainer, file_num)
    /\ UNCHANGED Others

\* The queue thread takes another of its statements.
QueueStep ==
    /\ trainer.pc = "train"
    /\ queue_enabled(trainer)
    /\ trainer' = queue_step(trainer)
    /\ UNCHANGED Others

NextTrain ==
    \/ TrainingStep
    \/ TrainingRaises
    \/ Sigint
    \/ HandlerStep
    \/ Fill
    \/ QueueStep

SpecTrain == InitTrain /\ [][NextTrain]_vars

\* C27: in every interleaving of the training thread, the SIGINT handler and
\* the queue thread, no thread calls self.sess.run or self.sess.close after
\* self.sess has been deleted.
SessionNotUsedAfterDelete ==
    trainer.pc = "train" => trainer.after_delete = {}

\* C29: at every pass of the fill loop of _load_and_enqueue start_i equals
\* num_queued and is at most train_batch_size; a load adds between 1 and
\* min(num_remaining, max_training_examples_per_load) examples at the buffer
\* positions [start_i, end_i), each position written once; a batch is handed
\* to the enqueue op only when it holds train_batch_size examples and
\* term_event was read as clear.
BatchFilledWithinBounds ==
    trainer.pc = "train" =>
        /\ trainer.start_i = trainer.num_queued
        /\ trainer.start_i <= train_batch_size
        /\ \A p \in 0..(train_batch_size - 1) :
               trainer.buffer[p] = IF p < trainer.start_i THEN 1 ELSE 0
        /\ (trainer.queue_pc = "fill" /\ trainer.num_loaded > 0) =>
               /\ 1 <= trainer.num_loaded
               /\ trainer.num_loaded
                      <= Min2(trainer.num_remaining, max_training_examples_per_load)
               /\ trainer.num_remaining
                      = train_batch_size - (trainer.num_queued - trainer.num_loaded)
               /\ trainer.end_i = trainer.start_i
        /\ trainer.queue_pc \in {"enqueue", "enqueuing"} =>
               /\ trainer.num_queued = train_batch_size
               /\ ~trainer.term_seen

\* C29 witness: a batch filled by more than one load, the last of them cut
\* to the examples that remained, is in the enqueue op.
BatchOfSeveralLoadsEnqueued ==
    /\ trainer.pc = "train"
    /\ trainer.queue_pc = "enqueuing"
    /\ trainer.num_loaded = trainer.num_remaining
    /\ trainer.num_loaded < max_training_examples_per_load
    /\ trainer.num_queued = train_batch_size

\* A pass of the fill loop that loads at least one example: the file drawn
\* by np.random.choice has training indices.
LoadSome ==
    /\ trainer.pc = "train"
    /\ trainer.queue_pc = "fill"
    /\ trainer.start_i < train_batch_size
    /\ \E file_num \in Files :
           /\ trainer.train_index_map[file_num] > 0
           /\ trainer' = queue_fill(trainer, file_num)
    /\ UNCHANGED Others

\* The training run under fair scheduling: each thread and the handler, once
\* started, keeps taking its statements, and the uniform draw of file_num
\* does not avoid the files with training indices for ever.
\* The runs of MaxSteps steps on datasets whose files are full or hold no
\* training index.
InitTrainLive ==
    /\ InitTrain
    /\ trainer.num_steps = MaxSteps
    /\ \A file_num \in Files :
           trainer.train_index_map[file_num] \in {0, MaxTrainInd}

SpecTrainLive ==
    /\ InitTrainLive
    /\ [][NextTrain]_vars
    /\ WF_vars(TrainingStep)
    /\ WF_vars(HandlerStep)
    /\ WF_vars(QueueStep)
    /\ WF_vars(Fill)
    /\ SF_vars(LoadSome)

\* dead_event and queue_thread_exited are set only after term_event, and
\* dead_event before queue_thread_exited.
ExitFlagsOrdered ==
    trainer.pc = "train" =>
        /\ trainer.dead_event => trainer.term_event
        /\ trainer.queue_thread_exited => trainer.dead_event

AxisRange == 2

\* The values of gqcnn.angular_bins the bin borders of which are directions
\* with integer components.
AngularBins == {1, 2, 4}

Abs(x) == IF x < 0 THEN -x ELSE x

\* np.arctan(num / den), den # 0
arctan(num, den) ==
    IF Sign(num) * Sign(den) >= 0
    THEN [quarter |-> 0, v |-> <<Abs(den), Abs(num)>>]
    ELSE [quarter |-> -1, v |-> <<Abs(num), Abs(den)>>]

\* np.pi / 2
HalfPi == [quarter |-> 1, v |-> <<1, 0>>]

\* grasp_theta of the axis p2 - p1 = (rows, columns)
grasp_theta(grasp_axis) ==
    IF grasp_axis[2] # 0 THEN arctan(grasp_axis[1], grasp_axis[2]) ELSE HalfPi

\* -angle
Negate(a) ==
    IF a.v[2] = 0
    THEN [quarter |-> -a.quarter, v |-> a.v]
    ELSE [quarter |-> -a.quarter - 1, v |-> <<a.v[2], a.v[1]>>]

\* angle + n * pi/2
AddQuarters(a, n) == [a EXCEPT !.quarter = @ + n]

\* angle > pi/2 and angle < -pi/2
AbovePlusHalfPi(a) == a.quarter >= 2 \/ (a.quarter = 1 /\ a.v[2] > 0)
BelowMinusHalfPi(a) == a.quarter <= -2

\* np.abs(angles) % PI with the sign put back, then the wrap into
\* [-pi/2, pi/2]
wrapped(a) ==
    LET neg == a.quarter < 0
        pos == IF neg THEN Negate(a) ELSE a
        rem == [pos EXCEPT !.quarter = @ % 2]
        signed == IF neg THEN Negate(rem) ELSE rem
    IN  IF AbovePlusHalfPi(signed) THEN AddQuarters(signed, -2)
        ELSE IF BelowMinusHalfPi(signed) THEN AddQuarters(signed, 2)
        ELSE signed

\* The normalization without 'angles *= -1'.
normalize_angle_unflipped(a) == AddQuarters(wrapped(a), 1)

\* The normalization of lines 1233-1241: wrap, negate, add pi/2.
normalize_angle(a) == AddQuarters(Negate(wrapped(a)), 1)

\* angle // self._bin_width with _bin_width = PI / angular_bins
bin_of(a, angular_bins) ==
    CASE angular_bins = 1 -> a.quarter \div 2
      [] angular_bins = 2 -> a.quarter
      [] angular_bins = 4 -> 2 * a.quarter + (IF a.v[2] >= a.v[1] THEN 1 ELSE 0)

InitBin ==
    /\ sampler = NoSampler
    /\ rng = 0
    /\ frame = [t \in Threads |-> IdleFrame]
    /\ memo = NoMemo
    /\ fixed_in = NoFixed
    /\ fc_in = NoFc
    /\ fc_out = NoFcOut
    /\ built = NoBuild
    /\ \E rows \in -AxisRange..AxisRange, cols \in -AxisRange..AxisRange,
          bins \in AngularBins :
           /\ <<rows, cols>> # <<0, 0>>
           /\ trainer = [pc |-> "axis", grasp_axis |-> <<rows, cols>>,
                         angular_bins |-> bins]

\* The sampler computes the angle of the grasp.
SampleAngle ==
    /\ trainer.pc = "axis"
    /\ trainer' = [pc |-> "sampled", grasp_axis |-> trainer.grasp_axis,
                   angular_bins |-> trainer.angular_bins,
                   grasp_theta |-> grasp_theta(trainer.grasp_axis)]
    /\ UNCHANGED Others

\* The trainer marks the two mask columns of the angle's bin.
BinAngle ==
    /\ trainer.pc = "sampled"
    /\ LET angle == normalize_angle(trainer.grasp_theta)
           bin == bin_of(angle, trainer.angular_bins)
       IN  trainer' = [pc |-> "binned", grasp_axis |-> trainer.grasp_axis,
                       angular_bins |-> trainer.angular_bins,
                       grasp_theta |-> trainer.grasp_theta,
                       angle |-> angle, bin |-> bin,
                       columns |-> {2 * bin, 2 * bin + 1}]
    /\ UNCHANGED Others

NextBin ==
    \/ SampleAngle
    \/ BinAngle

SpecBin == InitBin /\ [][NextBin]_vars

\* C30: for every angle the antipodal sampler computes, the trainer's
\* normalization followed by the floor division by the bin width gives a bin
\* b with 0 <= b < angular_bins, so the mask columns 2b and 2b+1 lie inside
\* the mask of width 2 * angular_bins.
BinInsideMask ==
    trainer.pc = "binned" =>
        /\ 0 <= trainer.bin /\ trainer.bin < trainer.angular_bins
        /\ trainer.columns \subseteq 0..(2 * trainer.angular_bins - 1)

\* C30 witness: the angle pi/2 of an axis with no column component, which
\* the normalization maps to 0, is binned into the first bin of four.
VerticalAxisInFirstBin ==
    /\ trainer.pc = "binned"
    /\ trainer.grasp_axis[2] = 0
    /\ trainer.grasp_theta = HalfPi
    /\ trainer.angular_bins = 4
    /\ trainer.bin = 0

==============================================================================
